---- MODULE Spec2Model ----
(***************************************************************************)
(* Gomercator: discrete-event broadcast simulator with the MERCATOR        *)
(* Geohash k-bucket overlay.                                               *)
(*                                                                         *)
(* Conventions of this model.                                              *)
(*  - Node ids are the Go slice indices 0..n-1.  Go slices are modelled as *)
(*    TLA+ sequences, so Go index i is sequence position i+1.              *)
(*  - A Geohash string is the sequence of the positions of its characters  *)
(*    in Base32Charset ("0" is 0, "1" is 1, "h" is 16, ...).               *)
(*  - Times are integers counted in ticks of 0.1 ms (the Go code uses      *)
(*    float64 milliseconds); float results of divisions are kept as exact  *)
(*    fractions <<numerator, denominator>>.                                *)
(*  - Coordinates are whole degrees on the equator (Lat = 0), where the    *)
(*    haversine formula reduces to a multiple of the longitude gap.        *)
(***************************************************************************)
EXTENDS Integers, Sequences, FiniteSets, TLC

(***************************************************************************)
(* Bounds of the model.                                                    *)
(***************************************************************************)
\* number of nodes of the overlays explored by Spec and SimSpec
NumNodes == 3

(***************************************************************************)
(* Program constants.                                                      *)
(***************************************************************************)
MaxDepth == 40
GeoBitsPerChar == 5
\* FixedDelay = 250.0 ms, in ticks
FixedDelay == 2500
\* inf = 1e8 ms, in ticks
Inf == 1000000000
\* BandwidthDefault (bps) and DataSizeSmall (bytes)
BandwidthDefault == 33000000
DataSizeSmall == 300
\* testNodes := 20 roots per repetition of the multi-root driver
TestNodes == 20
\* rand.Seed(100) in Simulation
SimulationSeed == 100

(***************************************************************************)
(* Small helpers.                                                          *)
(***************************************************************************)
Abs(x) == IF x < 0 THEN -x ELSE x

MinInt(a, b) == IF a <= b THEN a ELSE b

Range(s) == {s[k] : k \in DOMAIN s}

NoDup(s) == \A a, b \in DOMAIN s : s[a] = s[b] => a = b

\* the Go slice holding 0, 1, ..., k-1
Iota(k) == [p \in 1..k |-> p - 1]

\* Go integer division (truncates toward zero)
GoDiv(a, b) == IF a >= 0 THEN a \div b ELSE -((-a) \div b)

RECURSIVE Pow2(_)
Pow2(k) == IF k <= 0 THEN 1 ELSE 2 * Pow2(k - 1)

RECURSIVE SumSeq(_)
SumSeq(s) == IF s = <<>> THEN 0 ELSE Head(s) + SumSeq(Tail(s))

(***************************************************************************)
(* GeoMath: utils.go                                                       *)
(***************************************************************************)
\* Distance: one-way delay between two coordinates.  On the equator the
\* haversine angle is the longitude gap, so the delay is
\* gap * (Pi/180) * EarthRadius / 100000 * 2 = gap * 2.2239 ms = gap * 22.239 ticks.
Distance(a, b) ==
    IF Abs(a.Lat - b.Lat) = 0 /\ Abs(a.Lon - b.Lon) = 0
    THEN 0
    ELSE (Abs(a.Lon - b.Lon) * 22239 + 500) \div 1000

\* CalculateTransmissionDelay: (dataSize * 8 / bandwidth) * 1000 ms, rounded to ticks
CalculateTransmissionDelay(dataSize, bandwidth) ==
    (dataSize * 8 * 10000 + bandwidth \div 2) \div bandwidth

\* CalculatePropagationDelay: distance term with coefficient 3 plus transmission
CalculatePropagationDelay(u, v, coords, bandwidth, dataSize) ==
    LET distDelay == Distance(coords[u], coords[v]) * 3
        dataDelay == CalculateTransmissionDelay(dataSize, bandwidth)
    IN  distDelay + dataDelay

Clamp(val, lo, hi) == IF val < lo THEN lo ELSE IF val > hi THEN hi ELSE val

(***************************************************************************)
(* The process-wide PRNG (math/rand).  The generator is deterministic: its *)
(* state after rand.Seed(s) depends on s alone and every draw advances it. *)
(* The model keeps a short cycle of standard-normal draws, in units of one *)
(* standard deviation.                                                     *)
(***************************************************************************)
NormCycle == <<0, -1, 6, 1, -6>>

RandSeed(seed) == seed % Len(NormCycle)

RandAdvance(state) == (state + 1) % Len(NormCycle)

NormFloat64(state) == NormCycle[state + 1]

\* RandomNormal(mean, std) = rand.NormFloat64()*std + mean
RandomNormal(state, mean, std) == NormFloat64(state) * std + mean

\* CalculateProcessingDelay: (FixedDelay - 50 ms) + clamp(N(50 ms, 10 ms), 0, 100 ms)
CalculateProcessingDelay(state) ==
    LET base == FixedDelay - 500
        noise == Clamp(RandomNormal(state, 500, 100), 0, 1000)
    IN  base + noise

(***************************************************************************)
(* Geohash: binary expansion and bucket index (vivaldi_plusplus.go)        *)
(***************************************************************************)
\* CharToBits: the 5-bit expansion of a Base32 character, most significant first
CharToBits(idx) == [p \in 1..GeoBitsPerChar |-> (idx \div Pow2(GeoBitsPerChar - p)) % 2]

RECURSIVE ToBinary(_)
ToBinary(geohash) ==
    IF geohash = <<>> THEN <<>>
    ELSE CharToBits(Head(geohash)) \o ToBinary(Tail(geohash))

RECURSIVE FirstDiffFrom(_, _, _, _)
FirstDiffFrom(aBin, bBin, i, minLen) ==
    IF i >= minLen THEN -1
    ELSE IF aBin[i + 1] # bBin[i + 1] THEN i
    ELSE FirstDiffFrom(aBin, bBin, i + 1, minLen)

\* FirstDiffBitPos: first differing position (0-based), -1 when none
FirstDiffBitPos(aBin, bBin) ==
    FirstDiffFrom(aBin, bBin, 0, MinInt(Len(aBin), Len(bBin)))

\* width of Go's uint on the 64-bit targets
UintBits == 64

\* XorDistance: the XOR of the two bit strings read as an unsigned integer.  The
\* addends 1 << uint(maxLen-i-1) are distinct powers of two, so the sum is held
\* as the set of the exponents of its one-bits; a shift by UintBits or more
\* yields 0 and adds nothing.
XorDistance(binaryA, binaryB) ==
    LET maxLen == MinInt(Len(binaryA), Len(binaryB))
    IN  {maxLen - p : p \in {q \in 1..maxLen : /\ binaryA[q] # binaryB[q]
                                                /\ maxLen - q < UintBits}}

\* the number of right shifts that bring dist to 0
BitLength(dist) == IF dist = {} THEN 0 ELSE 1 + (CHOOSE e \in dist : \A f \in dist : f <= e)

\* GetGeoBucketIndex: 0 for equal hashes, else the position of the highest set bit
GetGeoBucketIndex(hashA, hashB, totalBits) ==
    LET dist == XorDistance(ToBinary(hashA), ToBinary(hashB))
    IN  IF dist = {} THEN 0 ELSE BitLength(dist)

(***************************************************************************)
(* Geohash prefix tree (vivaldi_plusplus.go)                               *)
(***************************************************************************)
\* The tree is held as the map from the prefix of a tree node to its NodeIDs:
\* the child reached from the root along the characters c1..ck has prefix
\* c1..ck, and the root, NewGeoPrefixNode(""), has the empty prefix.
\* inner loop of BuildPrefixTree: node i descends along the first k characters
\* of its hash, creating the child when it is missing, and is appended to it
RECURSIVE InsertHash(_, _, _, _)
InsertHash(tree, i, hash, k) ==
    IF k > Len(hash) THEN tree
    ELSE LET prefixStr == SubSeq(hash, 1, k)
             created == IF prefixStr \in DOMAIN tree THEN tree
                        ELSE [p \in DOMAIN tree \cup {prefixStr} |->
                                IF p = prefixStr THEN <<>> ELSE tree[p]]
         IN  InsertHash([created EXCEPT ![prefixStr] = Append(@, i)], i, hash, k + 1)

RECURSIVE InsertHashes(_, _, _)
InsertHashes(tree, nodeGeohash, i) ==
    IF i >= Len(nodeGeohash) THEN tree
    ELSE InsertHashes(InsertHash(tree, i, nodeGeohash[i + 1], 1), nodeGeohash, i + 1)

\* BuildPrefixTree: the root with no NodeIDs, then every node in id order
BuildPrefixTree(nodeGeohash) ==
    InsertHashes([p \in {<<>>} |-> <<>>], nodeGeohash, 0)

\* FindNodesWithPrefix: descend along the characters of the prefix, the empty
\* list when a child is missing, else the NodeIDs of the node reached
RECURSIVE FindFrom(_, _, _)
FindFrom(tree, prefix, k) ==
    IF k > Len(prefix) THEN tree[prefix]
    ELSE IF SubSeq(prefix, 1, k) \notin DOMAIN tree THEN <<>>
    ELSE FindFrom(tree, prefix, k + 1)

FindNodesWithPrefix(tree, prefix) == FindFrom(tree, prefix, 1)

\* child indices that start one position early, at nodeIdx*k
ComputeKaryChildrenOneEarly(nodeIdx, totalNodes, k) ==
    SelectSeq([p \in 1..k |-> nodeIdx * k + p - 1], LAMBDA c : c < totalNodes)

\* ComputeKaryChildren: child indices nodeIdx*k + 1 .. nodeIdx*k + k below totalNodes
ComputeKaryChildren(nodeIdx, totalNodes, k) ==
    SelectSeq([p \in 1..k |-> nodeIdx * k + p], LAMBDA c : c < totalNodes)

\* float64 degrees are kept exact as integers in units of 1/GeoScale degree:
\* every midpoint of up to 9 halvings of [-180, 180] is such an integer
GeoScale == Pow2(6)

\* GeoRange.Mid
Mid(range) == (range[1] + range[2]) \div 2

\* Encode, the loop body: the next bits of (lat, lon), longitude first
RECURSIVE EncodeBits(_, _, _, _, _, _)
EncodeBits(lat, lon, latRange, lonRange, isEven, bits) ==
    IF bits = 0 THEN <<>>
    ELSE IF isEven
         THEN IF lon >= Mid(lonRange)
              THEN <<1>> \o EncodeBits(lat, lon, latRange, <<Mid(lonRange), lonRange[2]>>,
                                       FALSE, bits - 1)
              ELSE <<0>> \o EncodeBits(lat, lon, latRange, <<lonRange[1], Mid(lonRange)>>,
                                       FALSE, bits - 1)
         ELSE IF lat >= Mid(latRange)
              THEN <<1>> \o EncodeBits(lat, lon, <<Mid(latRange), latRange[2]>>, lonRange,
                                       TRUE, bits - 1)
              ELSE <<0>> \o EncodeBits(lat, lon, <<latRange[1], Mid(latRange)>>, lonRange,
                                       TRUE, bits - 1)

\* Encode: every 5 bits make one Base32 character (its index in the charset)
BitsToChars(bits) ==
    [c \in 1..(Len(bits) \div GeoBitsPerChar) |->
        SumSeq([p \in 1..GeoBitsPerChar |->
                  bits[(c - 1) * GeoBitsPerChar + p] * Pow2(GeoBitsPerChar - p)])]

\* GeohashEncoder.Encode(lat, lon) with Precision = precision
Encode(lat, lon, precision) ==
    IF precision <= 0 THEN <<>>
    ELSE BitsToChars(EncodeBits(lat, lon, <<-90 * GeoScale, 90 * GeoScale>>,
                                <<-180 * GeoScale, 180 * GeoScale>>, TRUE,
                                precision * GeoBitsPerChar))

\* Decode, the loop body: the ranges after the bits from position p on
RECURSIVE DecodeBits(_, _, _, _, _)
DecodeBits(bits, p, latRange, lonRange, isEven) ==
    IF p > Len(bits) THEN [lat |-> latRange, lon |-> lonRange]
    ELSE IF isEven
         THEN DecodeBits(bits, p + 1, latRange,
                         IF bits[p] = 1 THEN <<Mid(lonRange), lonRange[2]>>
                         ELSE <<lonRange[1], Mid(lonRange)>>, FALSE)
         ELSE DecodeBits(bits, p + 1,
                         IF bits[p] = 1 THEN <<Mid(latRange), latRange[2]>>
                         ELSE <<latRange[1], Mid(latRange)>>, lonRange, TRUE)

\* a decoding that returns the upper corner of the cell
DecodeToUpperCorner(geohash) ==
    LET cell == DecodeBits(ToBinary(geohash), 1, <<-90 * GeoScale, 90 * GeoScale>>,
                           <<-180 * GeoScale, 180 * GeoScale>>, TRUE)
    IN  <<cell.lat[2], cell.lon[2]>>

\* GeohashEncoder.Decode(geohash): the centre (lat, lon) of the cell
Decode(geohash) ==
    LET cell == DecodeBits(ToBinary(geohash), 1, <<-90 * GeoScale, 90 * GeoScale>>,
                           <<-180 * GeoScale, 180 * GeoScale>>, TRUE)
    IN  <<Mid(cell.lat), Mid(cell.lon)>>

(***************************************************************************)
(* K-bucket construction (vivaldi_plusplus.go, called by fillKBuckets)     *)
(***************************************************************************)
\* groups that list their nodes in descending id order
BuildGeohashGroupsDescending(n, nodeGeohash) ==
    [h \in {nodeGeohash[i] : i \in 0..(n - 1)} |->
        LET up == SelectSeq(Iota(n), LAMBDA i : nodeGeohash[i] = h)
        IN  [p \in 1..Len(up) |-> up[Len(up) + 1 - p]]]

\* the Geohash groups built by fillKBuckets: for each hash in use, its nodes
\* in ascending id order (node i is appended in iteration i)
BuildGeohashGroups(n, nodeGeohash) ==
    [h \in {nodeGeohash[i] : i \in 0..(n - 1)} |->
        SelectSeq(Iota(n), LAMBDA i : nodeGeohash[i] = h)]

InitializeKBuckets(n, totalBits) ==
    [i \in 0..(n - 1) |-> [b \in 0..totalBits |-> <<>>]]

\* FillK0Bucket: in every group of more than one node, each member gets all
\* the other members, in group order, in its bucket 0
FillK0Bucket(kBuckets, geohashGroups) ==
    [i \in DOMAIN kBuckets |->
        [kBuckets[i] EXCEPT ![0] =
            LET hs == {h \in DOMAIN geohashGroups : i \in Range(geohashGroups[h])}
            IN  IF hs = {} THEN @
                ELSE LET group == geohashGroups[CHOOSE h \in hs : TRUE]
                     IN  IF Len(group) > 1
                         THEN @ \o SelectSeq(group, LAMBDA j : j # i)
                         ELSE @]]

\* DedupIntsStable: keeps the first occurrence of every value
RECURSIVE DedupFrom(_, _)
DedupFrom(xs, out) ==
    IF xs = <<>> THEN out
    ELSE IF Head(xs) \in Range(out) THEN DedupFrom(Tail(xs), out)
    ELSE DedupFrom(Tail(xs), Append(out, Head(xs)))

\* a dedup that keeps the last occurrence of every value
DedupIntsKeepLast(xs) ==
    LET rev(s) == [p \in 1..Len(s) |-> s[Len(s) + 1 - p]]
    IN  rev(DedupFrom(rev(xs), <<>>))

DedupIntsStable(xs) == IF Len(xs) <= 1 THEN xs ELSE DedupFrom(xs, <<>>)

\* the exchange sort of FillOtherKBuckets:
\*   for a < len-1: for b in a+1..len-1: if c[a].dist > c[b].dist then swap
RECURSIVE SortCandidates(_, _, _)
SortCandidates(c, a, b) ==
    IF a >= Len(c) - 1 THEN c
    ELSE IF b >= Len(c) THEN SortCandidates(c, a + 1, a + 2)
    ELSE IF c[a + 1].dist > c[b + 1].dist
         THEN SortCandidates([c EXCEPT ![a + 1] = c[b + 1], ![b + 1] = c[a + 1]], a, b + 1)
         ELSE SortCandidates(c, a, b + 1)

\* a real bucket counted from the leftmost bit
RealBucketFromLeft(totalBits, diffPos) == diffPos + 1

\* calcBucketIdx := totalBits - diffPos
RealBucket(totalBits, diffPos) == totalBits - diffPos

\* inner loop of FillOtherKBuckets over j: the first write into the real
\* bucket of j and the collection of the candidates
RECURSIVE ScanPeers(_, _, _, _, _, _, _)
ScanPeers(i, j, acc, nodeGeohashBinary, coords, bucketSize, totalBits) ==
    IF j >= Len(nodeGeohashBinary) THEN acc
    ELSE IF i = j
    THEN ScanPeers(i, j + 1, acc, nodeGeohashBinary, coords, bucketSize, totalBits)
    ELSE
      LET diffPos == FirstDiffBitPos(nodeGeohashBinary[i + 1], nodeGeohashBinary[j + 1])
          calcBucketIdx == RealBucket(totalBits, diffPos)
      IN  IF diffPos # -1 /\ calcBucketIdx >= 1 /\ calcBucketIdx <= totalBits
              /\ Len(acc.buckets[calcBucketIdx]) < bucketSize
          THEN ScanPeers(i, j + 1,
                   [buckets |-> [acc.buckets EXCEPT ![calcBucketIdx] = Append(@, j)],
                    candidates |-> Append(acc.candidates,
                                     [dist |-> Distance(coords[i], coords[j]), id |-> j])],
                   nodeGeohashBinary, coords, bucketSize, totalBits)
          ELSE ScanPeers(i, j + 1, acc, nodeGeohashBinary, coords, bucketSize, totalBits)

\* outer loop of FillOtherKBuckets over bucketIdx for node i, with the second
\* write of the nearest candidates into the bucket being enumerated
RECURSIVE FillBucketsOfNode(_, _, _, _, _, _, _)
FillBucketsOfNode(i, bucketIdx, buckets, nodeGeohashBinary, coords, bucketSize, totalBits) ==
    IF bucketIdx > totalBits THEN buckets
    ELSE IF Len(buckets[bucketIdx]) >= bucketSize
    THEN FillBucketsOfNode(i, bucketIdx + 1, buckets, nodeGeohashBinary, coords,
                           bucketSize, totalBits)
    ELSE
      LET scanned == ScanPeers(i, 0, [buckets |-> buckets, candidates |-> <<>>],
                               nodeGeohashBinary, coords, bucketSize, totalBits)
          sorted == SortCandidates(scanned.candidates, 0, 1)
          limit == MinInt(bucketSize, Len(sorted))
          second == [p \in 1..limit |-> sorted[p].id]
      IN  FillBucketsOfNode(i, bucketIdx + 1,
              [scanned.buckets EXCEPT ![bucketIdx] = @ \o second],
              nodeGeohashBinary, coords, bucketSize, totalBits)

\* FillOtherKBuckets: buckets 1..totalBits of every node, then the stable
\* dedup of every bucket of the node
FillOtherKBuckets(kBuckets, nodeGeohashBinary, coords, bucketSize, totalBits) ==
    [i \in DOMAIN kBuckets |->
        LET filled == FillBucketsOfNode(i, 1, kBuckets[i], nodeGeohashBinary, coords,
                                        bucketSize, totalBits)
        IN  [b \in 0..totalBits |-> DedupIntsStable(filled[b])]]

\* fillKBuckets, steps 2, 4 and 5: the k-buckets of a new Mercator instance
BuildKBuckets(n, nodeGeohash, coords, bucketSize, totalBits) ==
    FillOtherKBuckets(
        FillK0Bucket(InitializeKBuckets(n, totalBits), BuildGeohashGroups(n, nodeGeohash)),
        [p \in 1..n |-> ToBinary(nodeGeohash[p - 1])],
        coords, bucketSize, totalBits)

(***************************************************************************)
(* MsgQueue: queue.go (container/heap over MessageQueue)                   *)
(***************************************************************************)
\* NewMessage
NewMessage(r, src, dst, step, sendTime, recvTime) ==
    [Root |-> r, Src |-> src, Dst |-> dst, Step |-> step,
     SendTime |-> sendTime, RecvTime |-> recvTime]

\* a queue ordered the other way round, which serves the latest message first:
\* the minimum-time property of reception rests on Less
LessLatestFirst(mq, i, j) == mq[i + 1].RecvTime > mq[j + 1].RecvTime

\* MessageQueue.Less: ascending RecvTime (Go indices i, j)
Less(mq, i, j) == mq[i + 1].RecvTime < mq[j + 1].RecvTime

\* MessageQueue.Swap
Swap(mq, i, j) == [mq EXCEPT ![i + 1] = mq[j + 1], ![j + 1] = mq[i + 1]]

\* container/heap up(j), driven by Less and Swap
RECURSIVE HeapUp(_, _)
HeapUp(mq, j) ==
    LET i == GoDiv(j - 1, 2)
    IN  IF i = j \/ ~Less(mq, j, i) THEN mq ELSE HeapUp(Swap(mq, i, j), i)

\* container/heap down(i, len), driven by Less and Swap
RECURSIVE HeapDown(_, _, _)
HeapDown(mq, i, len) ==
    LET j1 == 2 * i + 1
    IN  IF j1 >= len THEN mq
        ELSE LET j == IF j1 + 1 < len /\ Less(mq, j1 + 1, j1) THEN j1 + 1 ELSE j1
             IN  IF ~Less(mq, j, i) THEN mq ELSE HeapDown(Swap(mq, i, j), j, len)

\* PriorityQueue.Push: heap.Push appends and sifts up
Push(mq, msg) == HeapUp(Append(mq, msg), Len(mq))

\* PriorityQueue.Pop: heap.Pop swaps the top to the end, sifts down, removes it
Pop(mq) ==
    LET last == Len(mq) - 1
        sifted == HeapDown(Swap(mq, 0, last), 0, last)
    IN  [msg |-> sifted[last + 1], queue |-> SubSeq(sifted, 1, last)]

RECURSIVE PushAll(_, _)
PushAll(mq, msgs) ==
    IF msgs = <<>> THEN mq
    ELSE LET pushed == Push(mq, Head(msgs))
         IN  IF Len(pushed) = Len(mq) + 1 THEN PushAll(pushed, Tail(msgs)) ELSE pushed

(***************************************************************************)
(* Graph: adjacency lists with an edge counter (Graph struct)              *)
(***************************************************************************)
\* NewGraph(n): n nodes, no edge
NewGraph(nn) ==
    [N |-> nn, M |-> 0,
     InBound |-> [i \in 0..(nn - 1) |-> <<>>],
     OutBound |-> [i \in 0..(nn - 1) |-> <<>>]]

\* AddEdge(u, v): refuses a self-loop and an edge already in OutBound[u];
\* returns the graph and whether the edge was added
AddEdge(g, u, v) ==
    IF u = v \/ v \in Range(g.OutBound[u])
    THEN [Graph |-> g, ok |-> FALSE]
    ELSE [Graph |-> [g EXCEPT !.OutBound[u] = Append(@, v),
                              !.InBound[v] = Append(@, u),
                              !.M = @ + 1],
          ok |-> TRUE]

\* the swap-delete of DelEdge: the first occurrence of x is overwritten with
\* the last element and the list is shortened by one
SwapDelete(list, x) ==
    IF x \notin Range(list) THEN list
    ELSE LET i == CHOOSE k \in DOMAIN list :
                    list[k] = x /\ \A j \in 1..(k - 1) : list[j] # x
         IN  SubSeq([list EXCEPT ![i] = list[Len(list)]], 1, Len(list) - 1)

\* a deletion that forgets the inbound list
DelEdgeOutBoundOnly(g, u, v) ==
    [g EXCEPT !.OutBound[u] = SwapDelete(@, v),
              !.M = @ - 1]

\* DelEdge(u, v): removes v from OutBound[u] and u from InBound[v] where
\* present, and decrements M in every case
DelEdge(g, u, v) ==
    [g EXCEPT !.OutBound[u] = SwapDelete(@, v),
              !.InBound[v] = SwapDelete(@, u),
              !.M = @ - 1]

\* sum of the outbound list sizes
OutDegreeSum(g) == SumSeq([p \in 1..g.N |-> Len(g.OutBound[p - 1])])

\* fillKBuckets step 6: every k-bucket entry of every node becomes an edge
RECURSIVE AddEdges(_, _, _)
AddEdges(g, u, nbs) ==
    IF nbs = <<>> THEN g
    ELSE LET added == AddEdge(g, u, Head(nbs)).Graph
         IN  IF added.M >= g.M THEN AddEdges(added, u, Tail(nbs)) ELSE added

RECURSIVE ConcatBuckets(_, _, _)
ConcatBuckets(buckets, b, totalBits) ==
    IF b > totalBits THEN <<>>
    ELSE buckets[b] \o ConcatBuckets(buckets, b + 1, totalBits)

RECURSIVE GraphFrom(_, _, _, _)
GraphFrom(g, i, kBuckets, totalBits) ==
    IF i >= g.N THEN g
    ELSE LET added == AddEdges(g, i, ConcatBuckets(kBuckets[i], 0, totalBits))
         IN  IF added.M >= g.M THEN GraphFrom(added, i + 1, kBuckets, totalBits)
             ELSE added

BuildGraph(nn, kBuckets, totalBits) == GraphFrom(NewGraph(nn), 0, kBuckets, totalBits)

(***************************************************************************)
(* State.                                                                  *)
(***************************************************************************)
VARIABLES
    \* inputs and the Mercator instance (algorithms: Mercator struct)
    n,              \* number of nodes, len(coords)
    Coords,         \* real coordinates, drive the delays
    NodeGeohash,    \* Geohash of every node (from the display coordinates)
    KBuckets,       \* [node][bucket] -> list of peers
    BucketSize,     \* capacity given to the k-bucket construction
    GeohashGroups,  \* hash -> list of the nodes with that hash
    TotalBits,      \* GeoPrec * GeoBitsPerChar
    K0Threshold,
    KaryFactor,
    TreeRoot,
    Visited,        \* [node][step] -> BOOLEAN, MaxDepth+1 steps per node
    KaryMsgInfo,    \* [node] -> [RootNode, IsKary]
    Graph,          \* the overlay graph: [N, M, InBound, OutBound]
    \* the process-wide PRNG
    rng,
    \* SingleRootSimulation: arguments and locals
    root, reptTime, rept, malFlags, leaveFlags,
    recvFlag, recvTime, recvDist, recvParent, depth, recvList, dupMsg,
    msgQueue, successChildren, result,
    \* control: position of the running program
    pc,
    \* the caller of SingleRootSimulation
    seed,           \* seed the caller gave to rand.Seed
    call,           \* number of SingleRootSimulation calls started
    firstRun,       \* what the first call returned
    simReptTime,    \* Simulation: reptTime argument
    simRept,        \* Simulation: rept
    testIdx,        \* Simulation: roots started in this repetition (t)
    testTime,       \* Simulation: testTime
    attack,         \* Simulation: attackConfig, ratios in percent
    lastOp,         \* outcome of the last direct AddEdge / DelEdge call
    \* direct calls of the library functions
    geoArg,         \* argument of the running Geohash / bit-string call
    geoRet,         \* what the call has returned so far
    LocalCoord,     \* the Vivaldi coordinate under update: Vector, Height, Error
    vivaldiState,   \* Phase and CurrentCc of its Vivaldi++ state, the calls made on it
    \* history of the current repetition
    respondCalls,   \* [node] -> number of Respond invocations with Dst = node
    senders,        \* nodes that enqueued at least one message
    minEnqueued,    \* [node] -> least RecvTime enqueued for it, -1 if none
    lastRespond,    \* the latest Respond call: its message, the caller's state, its answer
    firstDelivered  \* the nodes with recvFlag at the end of repetition 0 of the call, {} before

graphVars == <<Graph, lastOp>>
libVars == <<geoArg, geoRet, LocalCoord, vivaldiState>>
\* everything a broadcast leaves alone, apart from the Geohash groups
mercatorVars == <<n, Coords, NodeGeohash, KBuckets, BucketSize, GeohashGroups, TotalBits,
                  K0Threshold, KaryFactor, graphVars, libVars>>
algoVars == <<TreeRoot, Visited, KaryMsgInfo>>
runVars == <<recvFlag, recvTime, recvDist, recvParent, depth, recvList, dupMsg,
             msgQueue, successChildren, result>>
argVars == <<root, reptTime, malFlags, leaveFlags>>
callerVars == <<seed, call, firstRun, simReptTime, simRept, testIdx, testTime, attack>>
historyVars == <<respondCalls, senders, minEnqueued, lastRespond, firstDelivered>>
vars == <<mercatorVars, algoVars, rng, argVars, rept, runVars, pc, callerVars,
          historyVars>>

Nodes == 0..(n - 1)

(***************************************************************************)
(* Mercator: construction, SetRoot and Respond                             *)
(***************************************************************************)
\* sort.Ints
RECURSIVE SortInts(_)
SortInts(xs) ==
    IF xs = <<>> THEN <<>>
    ELSE LET m == CHOOSE x \in Range(xs) : \A y \in Range(xs) : x <= y
             at == CHOOSE k \in DOMAIN xs : xs[k] = m /\ \A l \in 1..(k - 1) : xs[l] # m
         IN  <<m>> \o SortInts(SubSeq(xs, 1, at - 1) \o SubSeq(xs, at + 1, Len(xs)))

\* the state of a Mercator instance as NewMercator leaves Visited and KaryMsgInfo
NoVisited(nodes) == [i \in nodes |-> [s \in 0..MaxDepth |-> FALSE]]

NoKaryMsgInfo(nodes) == [i \in nodes |-> [RootNode |-> -1, IsKary |-> FALSE]]

\* a reset that forgets the K-ary records
ResetVisitedKeepsKary(visited, karyMsgInfo) ==
    [Visited |-> [i \in DOMAIN visited |-> [s \in DOMAIN visited[i] |-> FALSE]],
     KaryMsgInfo |-> karyMsgInfo]

\* ResetVisited: clears every visited flag and every K-ary record
ResetVisited(visited, karyMsgInfo) ==
    [Visited |-> [i \in DOMAIN visited |-> [s \in DOMAIN visited[i] |-> FALSE]],
     KaryMsgInfo |-> [i \in DOMAIN karyMsgInfo |-> [RootNode |-> -1, IsKary |-> FALSE]]]

\* a SetRoot that only records the root
SetRootWithoutReset(r, visited, karyMsgInfo) ==
    [TreeRoot |-> r, Visited |-> visited, KaryMsgInfo |-> karyMsgInfo]

\* SetRoot: records the root and resets the broadcast-local state
SetRoot(r, visited, karyMsgInfo) ==
    [TreeRoot |-> r] @@ ResetVisited(visited, karyMsgInfo)

\* appends the members other than src of KBuckets[u][from .. to] to relayNodes
RECURSIVE ForwardBuckets(_, _, _, _, _)
ForwardBuckets(u, src, from, to, relayNodes) ==
    IF from > to THEN relayNodes
    ELSE ForwardBuckets(u, src, from + 1, to,
             relayNodes \o SelectSeq(KBuckets[u][from], LAMBDA v : v # src))

\* a K-ary branch that records the forwarding node itself as the root
KaryForwardMarksSender(u, src, groupHash, markRoot, relayNodes, karyMsgInfo, groups) ==
    LET sameGeohashNodes ==
            IF groupHash \in DOMAIN groups THEN SortInts(groups[groupHash]) ELSE <<>>
        found == {k \in DOMAIN sameGeohashNodes : sameGeohashNodes[k] = u}
        uIdx == IF found = {} THEN -1 ELSE (CHOOSE k \in found : \A l \in found : k <= l) - 1
        children == IF uIdx = -1 THEN <<>>
                    ELSE ComputeKaryChildren(uIdx, Len(sameGeohashNodes), KaryFactor)
        targets == SelectSeq([p \in DOMAIN children |-> sameGeohashNodes[children[p] + 1]],
                             LAMBDA v : v # src)
    IN  [relayNodes |-> relayNodes \o targets,
         KaryMsgInfo |-> [v \in DOMAIN karyMsgInfo |->
                             IF v \in Range(targets)
                             THEN [RootNode |-> u, IsKary |-> TRUE]
                             ELSE karyMsgInfo[v]],
         GeohashGroups |-> IF groupHash \in DOMAIN groups
                           THEN [groups EXCEPT ![groupHash] = sameGeohashNodes]
                           ELSE groups]

\* the K-ary branch of Respond: u forwards to its children in the sorted
\* same-hash list of groupHash and marks each with (markRoot, true)
KaryForward(u, src, groupHash, markRoot, relayNodes, karyMsgInfo, groups) ==
    LET sameGeohashNodes ==
            IF groupHash \in DOMAIN groups THEN SortInts(groups[groupHash]) ELSE <<>>
        found == {k \in DOMAIN sameGeohashNodes : sameGeohashNodes[k] = u}
        uIdx == IF found = {} THEN -1 ELSE (CHOOSE k \in found : \A l \in found : k <= l) - 1
        children == IF uIdx = -1 THEN <<>>
                    ELSE ComputeKaryChildren(uIdx, Len(sameGeohashNodes), KaryFactor)
        targets == SelectSeq([p \in DOMAIN children |-> sameGeohashNodes[children[p] + 1]],
                             LAMBDA v : v # src)
    IN  [relayNodes |-> relayNodes \o targets,
         KaryMsgInfo |-> [v \in DOMAIN karyMsgInfo |->
                             IF v \in Range(targets)
                             THEN [RootNode |-> markRoot, IsKary |-> TRUE]
                             ELSE karyMsgInfo[v]],
         GeohashGroups |-> IF groupHash \in DOMAIN groups
                           THEN [groups EXCEPT ![groupHash] = sameGeohashNodes]
                           ELSE groups]

\* a K0 handling that floods bucket 0 whatever its size
K0ForwardAlwaysFloods(u, src, karyMsgInfo, groups) ==
    [relayNodes |-> SelectSeq(KBuckets[u][0], LAMBDA v : v # src),
     KaryMsgInfo |-> karyMsgInfo, GeohashGroups |-> groups]

\* the K0 handling shared by the source and the relays: flood bucket 0 when
\* it is within the threshold, else start a K-ary tree rooted at u
K0Forward(u, src, karyMsgInfo, groups) ==
    IF Len(KBuckets[u][0]) <= K0Threshold
    THEN [relayNodes |-> SelectSeq(KBuckets[u][0], LAMBDA v : v # src),
          KaryMsgInfo |-> karyMsgInfo, GeohashGroups |-> groups]
    ELSE KaryForward(u, src, NodeGeohash[u], u, <<>>, karyMsgInfo, groups)

\* a relay that also forwards into the bucket the sender is in
LastRelayBucketInclusive(srcBucket) == srcBucket

\* Respond, the relay branch: outer buckets are served for bucketIdx < srcBucket
LastRelayBucket(srcBucket) == srcBucket - 1

\* a relay that does the K0 handling whatever bucket the sender is in
RelayHandlesK0Always(srcBucket) == TRUE

\* Respond, the relay branch: an unmarked relay does the K0 handling only for
\* a sender outside its own cell
RelayHandlesK0(srcBucket) == srcBucket > 0

\* a visited test that never suppresses
AlreadyVisitedNever(visited, u, step) == FALSE

\* Respond, lines 213-217: the (node, step) pair was handled before
AlreadyVisited(visited, u, step) == visited[u][step]

\* Respond: the relay list of msg.Dst, with the state Respond leaves behind.
\* Visited[u] has MaxDepth+1 slots: a larger msg.Step is an index out of
\* range, which aborts the program (panic).
Respond(msg) ==
    LET u == msg.Dst
        unchanged == [panic |-> FALSE, relayNodes |-> <<>>, Visited |-> Visited,
                      KaryMsgInfo |-> KaryMsgInfo, GeohashGroups |-> GeohashGroups]
    IN  IF msg.Step > MaxDepth \/ msg.Step < 0
        THEN [unchanged EXCEPT !.panic = TRUE]
        ELSE IF AlreadyVisited(Visited, u, msg.Step) THEN unchanged
        ELSE
          LET visited == [Visited EXCEPT ![u][msg.Step] = TRUE]
          IN  IF msg.Step = 0
              THEN LET k0 == K0Forward(u, msg.Src, KaryMsgInfo, GeohashGroups)
                   IN  [panic |-> FALSE,
                        relayNodes |-> ForwardBuckets(u, msg.Src, 1, TotalBits, k0.relayNodes),
                        Visited |-> visited,
                        KaryMsgInfo |-> k0.KaryMsgInfo,
                        GeohashGroups |-> k0.GeohashGroups]
              ELSE LET srcBucket == GetGeoBucketIndex(NodeGeohash[u], NodeGeohash[msg.Src],
                                                      TotalBits)
                       inner ==
                           IF KaryMsgInfo[u].IsKary
                           THEN KaryForward(u, msg.Src,
                                            NodeGeohash[KaryMsgInfo[u].RootNode],
                                            KaryMsgInfo[u].RootNode, <<>>,
                                            KaryMsgInfo, GeohashGroups)
                           ELSE IF RelayHandlesK0(srcBucket)
                           THEN K0Forward(u, msg.Src, KaryMsgInfo, GeohashGroups)
                           ELSE [relayNodes |-> <<>>, KaryMsgInfo |-> KaryMsgInfo,
                                 GeohashGroups |-> GeohashGroups]
                   IN  [panic |-> FALSE,
                        relayNodes |-> ForwardBuckets(u, msg.Src, 1, LastRelayBucket(srcBucket),
                                                      inner.relayNodes),
                        Visited |-> visited,
                        KaryMsgInfo |-> inner.KaryMsgInfo,
                        GeohashGroups |-> inner.GeohashGroups]

(***************************************************************************)
(* TestResult and exact fractions                                          *)
(***************************************************************************)
\* a float64 produced by divisions, kept exact as <<numerator, denominator>>
Frac(a, b) == <<a, b>>

FracAdd(x, y) == <<x[1] * y[2] + y[1] * x[2], x[2] * y[2]>>

FracDiv(x, k) == <<x[1], x[2] * k>>

FracEq(x, y) == x[1] * y[2] = y[1] * x[2]

FracLess(x, y) == x[1] * y[2] < y[1] * x[2]

\* NewTestResult (the cluster slots stay zero: no clustering is passed)
NewTestResult ==
    [AvgBandwidth |-> Frac(0, 1),
     AvgLatency |-> Frac(0, 1),
     Latency |-> [k \in 0..20 |-> Frac(0, 1)],
     DepthCDF |-> [d \in 0..(MaxDepth - 1) |-> Frac(0, 1)],
     AvgDist |-> [d \in 0..(MaxDepth - 1) |-> Frac(0, 1)],
     SuccessChildren |-> <<>>]

(***************************************************************************)
(* SingleRootSimulation: simulator part of clustering.go                   *)
(***************************************************************************)
\* no Respond call has been made
NoRespond ==
    [msg |-> NewMessage(-1, -1, -1, -1, 0, 0), relayNodes |-> <<>>, panic |-> FALSE,
     visited |-> FALSE, kary |-> [RootNode |-> -1, IsKary |-> FALSE]]

\* lines 346-361: the locals of one repetition and the seeded queue
InitRepetition(r) ==
    /\ recvFlag' = [i \in Nodes |-> FALSE]
    /\ recvTime' = [i \in Nodes |-> 0]
    /\ recvDist' = [i \in Nodes |-> 0]
    /\ recvParent' = [i \in Nodes |-> -1]
    /\ depth' = [i \in Nodes |-> 0]
    /\ recvList' = <<>>
    /\ dupMsg' = 0
    /\ msgQueue' = Push(<<>>, NewMessage(r, r, r, 0, 0, 0))
    /\ respondCalls' = [i \in Nodes |-> 0]
    /\ senders' = {}
    /\ minEnqueued' = [i \in Nodes |-> IF i = r THEN 0 ELSE -1]
    /\ lastRespond' = NoRespond

\* lines 334-361: entry of SingleRootSimulation(r, rt, coords, mal, leave, algo, ...)
EnterSingleRootSimulation(r, rt, mal, leave) ==
    LET reset == SetRoot(r, Visited, KaryMsgInfo)
    IN  /\ root' = r
        /\ reptTime' = rt
        /\ malFlags' = mal
        /\ leaveFlags' = leave
        /\ TreeRoot' = reset.TreeRoot
        /\ Visited' = reset.Visited
        /\ KaryMsgInfo' = reset.KaryMsgInfo
        /\ result' = NewTestResult
        /\ successChildren' = [i \in Nodes |-> <<>>]
        /\ rept' = 0
        /\ InitRepetition(r)
        /\ firstDelivered' = {}
        /\ pc' = "loop"

\* a duplicate test that lets every delivery through
IsDuplicateNever(msg) == FALSE

\* lines 369-372: the destination already received in this repetition
IsDuplicate(msg) == recvFlag[msg.Dst]

\* a relay test that stops malicious nodes only
AbsorbsOnlyMalicious(u) == malFlags[u]

\* lines 389-392: malicious and absent nodes receive but do not forward
Absorbs(u) == malFlags[u] \/ leaveFlags[u]

\* a reception that leaves the flag of a malicious or absent node unset
RecordReceptionHonestOnly(msg) ==
    LET u == msg.Dst
    IN  /\ successChildren' = IF msg.Src # u
                              THEN [successChildren EXCEPT ![msg.Src] = Append(@, u)]
                              ELSE successChildren
        /\ recvFlag' = [recvFlag EXCEPT ![u] = ~(malFlags[u] \/ leaveFlags[u])]
        /\ recvTime' = [recvTime EXCEPT ![u] = msg.RecvTime]
        /\ recvDist' = [recvDist EXCEPT ![u] = msg.RecvTime - msg.SendTime]
        /\ recvParent' = [recvParent EXCEPT ![u] = msg.Src]
        /\ recvList' = Append(recvList, u)
        /\ depth' = IF u # root THEN [depth EXCEPT ![u] = depth[msg.Src] + 1] ELSE depth

\* a reception that copies the depth of the sender
RecordReceptionDepthOfSender(msg) ==
    LET u == msg.Dst
    IN  /\ successChildren' = IF msg.Src # u
                              THEN [successChildren EXCEPT ![msg.Src] = Append(@, u)]
                              ELSE successChildren
        /\ recvFlag' = [recvFlag EXCEPT ![u] = TRUE]
        /\ recvTime' = [recvTime EXCEPT ![u] = msg.RecvTime]
        /\ recvDist' = [recvDist EXCEPT ![u] = msg.RecvTime - msg.SendTime]
        /\ recvParent' = [recvParent EXCEPT ![u] = msg.Src]
        /\ recvList' = Append(recvList, u)
        /\ depth' = IF u # root THEN [depth EXCEPT ![u] = depth[msg.Src]] ELSE depth

\* lines 373-387: the first reception of msg at u = msg.Dst
RecordReception(msg) ==
    LET u == msg.Dst
    IN  /\ successChildren' = IF msg.Src # u
                              THEN [successChildren EXCEPT ![msg.Src] = Append(@, u)]
                              ELSE successChildren
        /\ recvFlag' = [recvFlag EXCEPT ![u] = TRUE]
        /\ recvTime' = [recvTime EXCEPT ![u] = msg.RecvTime]
        /\ recvDist' = [recvDist EXCEPT ![u] = msg.RecvTime - msg.SendTime]
        /\ recvParent' = [recvParent EXCEPT ![u] = msg.Src]
        /\ recvList' = Append(recvList, u)
        /\ depth' = IF u # root THEN [depth EXCEPT ![u] = depth[msg.Src] + 1] ELSE depth

\* relay messages whose send and receive times are exchanged
RelayMessagesTimesExchanged(msg, relayList, delayTime) ==
    LET u == msg.Dst
    IN  [p \in DOMAIN relayList |->
            LET v == relayList[p]
                dist == CalculatePropagationDelay(u, v, Coords, BandwidthDefault,
                                                  DataSizeSmall)
            IN  NewMessage(root, u, v, msg.Step + 1, msg.RecvTime + dist + delayTime,
                           msg.RecvTime + delayTime)]

\* lines 401-408: the messages u sends to relayList after the delay delayTime
RelayMessages(msg, relayList, delayTime) ==
    LET u == msg.Dst
    IN  [p \in DOMAIN relayList |->
            LET v == relayList[p]
                dist == CalculatePropagationDelay(u, v, Coords, BandwidthDefault,
                                                  DataSizeSmall)
            IN  NewMessage(root, u, v, msg.Step + 1, msg.RecvTime + delayTime,
                           msg.RecvTime + dist + delayTime)]

LeastRecvTime(old, msgs, v) ==
    LET times == {msgs[p].RecvTime : p \in {q \in DOMAIN msgs : msgs[q].Dst = v}}
                 \cup (IF old = -1 THEN {} ELSE {old})
    IN  IF times = {} THEN -1 ELSE CHOOSE t \in times : \A o \in times : t <= o

\* lines 365-372: a message for a node that already received is counted and dropped
PopDuplicate ==
    /\ pc = "loop"
    /\ msgQueue # <<>>
    /\ LET popped == Pop(msgQueue)
       IN  /\ IsDuplicate(popped.msg)
           /\ dupMsg' = dupMsg + 1
           /\ msgQueue' = popped.queue
    /\ UNCHANGED <<mercatorVars, algoVars, rng, argVars, rept, pc, callerVars, historyVars,
                   recvFlag, recvTime, recvDist, recvParent, depth, recvList,
                   successChildren, result>>

\* lines 365-392: first reception at a malicious or absent node, which does not forward
PopAbsorbed ==
    /\ pc = "loop"
    /\ msgQueue # <<>>
    /\ LET popped == Pop(msgQueue)
           u == popped.msg.Dst
       IN  /\ ~IsDuplicate(popped.msg)
           /\ Absorbs(u)
           /\ RecordReception(popped.msg)
           /\ msgQueue' = popped.queue
    /\ UNCHANGED <<mercatorVars, algoVars, rng, argVars, rept, pc, callerVars, historyVars,
                   dupMsg, result>>

\* lines 365-408: first reception at a forwarding node: Respond, one processing
\* delay, one message per relay target
PopForward ==
    /\ pc = "loop"
    /\ msgQueue # <<>>
    /\ LET popped == Pop(msgQueue)
           msg == popped.msg
           u == msg.Dst
           answer == Respond(msg)
           delayTime == CalculateProcessingDelay(rng)
           sent == RelayMessages(msg, answer.relayNodes, delayTime)
       IN  /\ ~IsDuplicate(msg)
           /\ ~Absorbs(u)
           /\ RecordReception(msg)
           /\ respondCalls' = [respondCalls EXCEPT ![u] = @ + 1]
           /\ lastRespond' = [msg |-> msg, relayNodes |-> answer.relayNodes,
                               panic |-> answer.panic,
                               visited |-> msg.Step \in 0..MaxDepth /\ Visited[u][msg.Step],
                               kary |-> KaryMsgInfo[u]]
           /\ IF answer.panic
              THEN /\ pc' = "panic"
                   /\ msgQueue' = popped.queue
                   /\ UNCHANGED <<Visited, KaryMsgInfo, GeohashGroups, rng, senders,
                                  minEnqueued>>
              ELSE /\ pc' = pc
                   /\ Visited' = answer.Visited
                   /\ KaryMsgInfo' = answer.KaryMsgInfo
                   /\ GeohashGroups' = answer.GeohashGroups
                   /\ rng' = RandAdvance(rng)
                   /\ msgQueue' = PushAll(popped.queue, sent)
                   /\ senders' = IF sent = <<>> THEN senders ELSE senders \cup {u}
                   /\ minEnqueued' = [v \in Nodes |-> LeastRecvTime(minEnqueued[v], sent, v)]
    /\ UNCHANGED <<n, Coords, NodeGeohash, KBuckets, BucketSize, TotalBits, K0Threshold, KaryFactor,
                   graphVars, libVars, TreeRoot, argVars, rept, callerVars, dupMsg,
                   result, firstDelivered>>

\* a selection that takes every node without recvFlag, flagged or not
UncoveredIgnoringFlags ==
    SelectSeq(Iota(n), LAMBDA i : ~recvFlag[i])

\* line 416: the honest nodes no message reached
Uncovered ==
    SelectSeq(Iota(n), LAMBDA i : ~recvFlag[i] /\ ~malFlags[i] /\ ~leaveFlags[i])

\* lines 411-436: recvCount and avgLatency range over the nodes with recvFlag
RecvCount == Cardinality({i \in Nodes : recvFlag[i]})

RECURSIVE SumRecvTime(_)
SumRecvTime(i) ==
    IF i >= n THEN 0
    ELSE (IF recvFlag[i] THEN recvTime[i] ELSE 0) + SumRecvTime(i + 1)

\* lines 452-454: the bandwidth term one repetition adds
BandwidthTerm(dup, nonMalNode) == Frac(dup + nonMalNode, nonMalNode)

\* a histogram that leaves out the entries appended for uncovered nodes
DepthCountReceivedOnly(list, dep, d) ==
    Cardinality({p \in DOMAIN list : dep[list[p]] = d /\ recvFlag[list[p]]})

\* lines 457-465: nodes of list whose depth is d, and their summed recvDist
DepthCount(list, dep, d) == Cardinality({p \in DOMAIN list : dep[list[p]] = d})

RECURSIVE DepthDist(_, _, _, _)
DepthDist(list, dep, d, p) ==
    IF p > Len(list) THEN 0
    ELSE (IF dep[list[p]] = d THEN recvDist[list[p]] ELSE 0)
         + DepthDist(list, dep, d, p + 1)

\* lines 479-481: sort.Slice(recvList, recvTime ascending), as an insertion sort
RECURSIVE InsertByTime(_, _, _)
InsertByTime(sorted, u, times) ==
    IF sorted = <<>> THEN <<u>>
    ELSE IF times[u] < times[sorted[Len(sorted)]]
         THEN Append(InsertByTime(SubSeq(sorted, 1, Len(sorted) - 1), u, times),
                     sorted[Len(sorted)])
         ELSE Append(sorted, u)

RECURSIVE SortByRecvTime(_, _)
SortByRecvTime(list, times) ==
    IF list = <<>> THEN <<>>
    ELSE InsertByTime(SortByRecvTime(SubSeq(list, 1, Len(list) - 1), times),
                      list[Len(list)], times)

\* lines 484-488: int(float64(nonMalNode) * pct) at the k-th pass of the loop
\* "for pct := 0.05; pct <= 1.0; pct += 0.05".  The float64 sum pct falls just
\* below k/20 for k in 8..11, which lowers the index when nonMalNode*k/20 is an
\* integer, except where the product rounds up again (counts below 60).
PercentileIndex(nonMalNode, k) ==
    LET exact == (nonMalNode * k) \div 20
        below == /\ (nonMalNode * k) % 20 = 0
                 /\ k \in 8..11
                 /\ <<nonMalNode, k>> \notin {<<20, 9>>, <<25, 8>>, <<40, 9>>,
                                              <<45, 8>>, <<50, 8>>}
        idx == IF below THEN exact - 1 ELSE exact
    IN  IF idx >= nonMalNode THEN nonMalNode - 1 ELSE idx

\* the loop leaves after 19 passes: the 20th sum is 1.0000000000000002 > 1.0
PercentilePasses == 19

\* lines 411-498: the statistics one repetition adds to result
RepetitionStatistics ==
    LET unc == Uncovered
        times == [i \in Nodes |-> IF i \in Range(unc) THEN Inf ELSE recvTime[i]]
        list == recvList \o unc
        dep == [i \in Nodes |-> IF i \in Range(unc) THEN MaxDepth - 1 ELSE depth[i]]
        nonMalNode == Len(list)
        sorted == SortByRecvTime(list, times)
    IN  [recvTime |-> times,
         recvList |-> sorted,
         depth |-> dep,
         result |->
            [AvgBandwidth |-> FracAdd(result.AvgBandwidth,
                                      BandwidthTerm(dupMsg, nonMalNode)),
             AvgLatency |-> IF RecvCount > 0 THEN Frac(SumRecvTime(0), RecvCount)
                            ELSE Frac(0, 1),
             Latency |-> [k \in 0..20 |->
                            IF k < PercentilePasses
                            THEN FracAdd(result.Latency[k],
                                         Frac(times[sorted[PercentileIndex(nonMalNode,
                                                                           k + 1) + 1]], 1))
                            ELSE result.Latency[k]],
             DepthCDF |-> [d \in 0..(MaxDepth - 1) |->
                            FracDiv(FracAdd(result.DepthCDF[d],
                                            Frac(DepthCount(list, dep, d), 1)),
                                    nonMalNode)],
             AvgDist |-> [d \in 0..(MaxDepth - 1) |->
                            LET total == FracAdd(result.AvgDist[d],
                                                 Frac(DepthDist(list, dep, d, 1), 1))
                                cnt == DepthCount(list, dep, d)
                            IN  IF cnt > 0 THEN FracDiv(total, cnt) ELSE total],
             SuccessChildren |-> successChildren]]

\* lines 507-518: a percentile slot after the repetitions
AverageLatency(slot, rt) ==
    LET tmp == GoDiv(slot[1], slot[2] * Inf)
        rest == Frac(slot[1] - tmp * Inf * slot[2], slot[2])
        validCount == rt - tmp
        avg == IF validCount = 0 THEN Frac(0, 1) ELSE FracDiv(rest, validCount)
    IN  IF FracLess(avg, Frac(1, 1))
        THEN Frac(Inf, 1) ELSE avg

\* lines 501-520: the averages over the repetitions
FinalResult(res, rt) ==
    [res EXCEPT !.AvgBandwidth = FracDiv(@, rt),
                !.DepthCDF = [d \in 0..(MaxDepth - 1) |-> FracDiv(@[d], rt)],
                !.Latency = [k \in 0..20 |-> AverageLatency(@[k], rt)]]

\* lines 344, 364, 411-498: the queue is empty, the statistics of this repetition
\* are taken and the next repetition starts
StatisticsNextRept ==
    /\ pc = "loop"
    /\ msgQueue = <<>>
    /\ rept + 1 < reptTime
    /\ result' = RepetitionStatistics.result
    /\ rept' = rept + 1
    /\ InitRepetition(root)
    /\ firstDelivered' = IF rept = 0 THEN {i \in Nodes : recvFlag[i]} ELSE firstDelivered
    /\ UNCHANGED <<mercatorVars, algoVars, rng, argVars, pc, callerVars, successChildren>>

\* lines 344, 364, 411-522: statistics of the last repetition, averages, return
StatisticsReturn ==
    /\ pc = "loop"
    /\ msgQueue = <<>>
    /\ rept + 1 >= reptTime
    /\ LET stats == RepetitionStatistics
       IN  /\ recvTime' = stats.recvTime
           /\ recvList' = stats.recvList
           /\ depth' = stats.depth
           /\ result' = FinalResult(stats.result, reptTime)
    /\ rept' = rept + 1
    /\ pc' = "returned"
    /\ UNCHANGED <<mercatorVars, algoVars, rng, argVars, callerVars, historyVars,
                   recvFlag, recvDist, recvParent, dupMsg, msgQueue, successChildren>>

(***************************************************************************)
(* Inputs                                                                  *)
(***************************************************************************)
\* Geohashes of precision 1: "0", "1" (they differ in the last bit) and "h"
\* (it differs from both in the first bit)
HashPool == {<<0>>, <<1>>, <<16>>}

\* geoPrec: Encode(lat, lon, geoPrec) yields geoPrec characters
GeoPrec(hashes) == Len(hashes[0])

\* real coordinates on the equator: all nodes at one point, or 10 degrees apart
Layouts(nodes) ==
    {[i \in nodes |-> [Lat |-> 0, Lon |-> 0]],
     [i \in nodes |-> [Lat |-> 0, Lon |-> 10 * i]]}

\* (bucketSize, k0Threshold, karyFactor) given to NewMercator
MercatorParams == {<<1, 9999, 3>>, <<2, 9999, 3>>, <<2, 0, 2>>, <<2, 1, 1>>}

\* malicious / absent flag vectors with at most one flagged node in total
FlagPairs(nodes) ==
    {<<[i \in nodes |-> FALSE], [i \in nodes |-> FALSE]>>}
    \cup {<<[i \in nodes |-> i = x], [i \in nodes |-> FALSE]>> : x \in nodes}
    \cup {<<[i \in nodes |-> FALSE], [i \in nodes |-> i = x]>> : x \in nodes}

Seeds == {SimulationSeed, 7}

ReptTimes == {1, 2}

\* NewMercator up to fillKBuckets step 5: geohashes, groups, k-buckets and the
\* cleared broadcast state
MercatorOverlay(nn, hashes, coords, params) ==
    /\ n = nn
    /\ Coords = coords
    /\ NodeGeohash = hashes
    /\ TotalBits = GeoPrec(hashes) * GeoBitsPerChar
    /\ BucketSize = params[1]
    /\ K0Threshold = params[2]
    /\ KaryFactor = params[3]
    /\ GeohashGroups = BuildGeohashGroups(nn, hashes)
    /\ KBuckets = BuildKBuckets(nn, hashes, coords, params[1],
                                GeoPrec(hashes) * GeoBitsPerChar)
    /\ TreeRoot = 0
    /\ Visited = NoVisited(0..(nn - 1))
    /\ KaryMsgInfo = NoKaryMsgInfo(0..(nn - 1))

\* NewMercator(n, coords, vivaldiModels, geoPrec, bucketSize, k0Threshold, karyFactor)
NewMercator(nn, hashes, coords, params) ==
    /\ MercatorOverlay(nn, hashes, coords, params)
    /\ Graph = BuildGraph(nn, KBuckets, TotalBits)

\* no SingleRootSimulation call is running yet
NoSimulation(nodes) ==
    /\ rept = 0
    /\ recvFlag = [i \in nodes |-> FALSE]
    /\ recvTime = [i \in nodes |-> 0]
    /\ recvDist = [i \in nodes |-> 0]
    /\ recvParent = [i \in nodes |-> -1]
    /\ depth = [i \in nodes |-> 0]
    /\ recvList = <<>>
    /\ dupMsg = 0
    /\ msgQueue = <<>>
    /\ successChildren = [i \in nodes |-> <<>>]
    /\ result = NewTestResult
    /\ respondCalls = [i \in nodes |-> 0]
    /\ senders = {}
    /\ minEnqueued = [i \in nodes |-> -1]
    /\ lastRespond = NoRespond
    /\ firstDelivered = {}
    /\ pc = "idle"
    /\ call = 0
    /\ firstRun = <<>>
    /\ simRept = 0
    /\ testIdx = 0
    /\ testTime = 0
    /\ lastOp = "none"

\* neither a simulation nor a library call is running yet
NotStarted(nodes) ==
    /\ NoSimulation(nodes)
    /\ geoArg = <<>>
    /\ geoRet = <<>>
    /\ LocalCoord = <<>>
    /\ vivaldiState = <<>>

\* a caller with a Mercator overlay, a seed and the arguments of the call
Init ==
    \E nn \in 1..NumNodes :
        /\ \E hashes \in [0..(nn - 1) -> HashPool], coords \in Layouts(0..(nn - 1)),
              params \in MercatorParams :
                NewMercator(nn, hashes, coords, params)
        /\ \E flags \in FlagPairs(0..(nn - 1)) :
                malFlags = flags[1] /\ leaveFlags = flags[2]
        /\ root \in 0..(nn - 1)
        /\ reptTime \in ReptTimes
        /\ seed \in Seeds
        /\ (reptTime > 1 => seed = SimulationSeed)
        /\ rng = RandSeed(1)
        /\ NotStarted(0..(nn - 1))
        /\ simReptTime = 0
        /\ attack = [MaliciousRatio |-> 0, NodeLeaveRatio |-> 0]

\* what a caller sees of a finished SingleRootSimulation call
Outcome ==
    [dupMsg |-> dupMsg, recvFlag |-> recvFlag, recvTime |-> recvTime,
     depth |-> depth, result |-> result]

\* rand.Seed(seed); SingleRootSimulation(root, reptTime, coords, malFlags, leaveFlags, algo, ...)
CallSingleRootSimulation ==
    /\ pc = "idle"
    /\ call = 0
    /\ rng' = RandSeed(seed)
    /\ EnterSingleRootSimulation(root, reptTime, malFlags, leaveFlags)
    /\ call' = 1
    /\ UNCHANGED <<mercatorVars, seed, firstRun, simReptTime, simRept, testIdx, testTime,
                   attack>>

\* the same call once more, on the same Mercator instance, after re-seeding
CallAgain ==
    /\ pc = "returned"
    /\ call = 1
    /\ firstRun' = Outcome
    /\ rng' = RandSeed(seed)
    /\ EnterSingleRootSimulation(root, reptTime, malFlags, leaveFlags)
    /\ call' = 2
    /\ UNCHANGED <<mercatorVars, seed, simReptTime, simRept, testIdx, testTime, attack>>

Next ==
    \/ CallSingleRootSimulation
    \/ PopDuplicate
    \/ PopAbsorbed
    \/ PopForward
    \/ StatisticsNextRept
    \/ StatisticsReturn

Spec == Init /\ [][Next]_vars

\* the caller that repeats its call on the same instance
TwinInit == Init /\ n = NumNodes /\ \A i \in 0..(NumNodes - 1) : ~leaveFlags[i]

TwinNext == Next \/ CallAgain

TwinSpec == TwinInit /\ [][TwinNext]_vars

(***************************************************************************)
(* Properties of the single-root broadcast                                 *)
(***************************************************************************)
\* C1: for every node u that received, the recorded recvTime[u] is the least
\* RecvTime among all messages addressed to u that were enqueued so far in this
\* broadcast, messages enqueued after u's first reception included.
C1_RecvTimeIsMinimum ==
    \A u \in Nodes : recvFlag[u] => recvTime[u] = minEnqueued[u]

\* a node has received while a later message addressed to it is still queued
C1_Witness ==
    /\ pc = "loop"
    /\ \E p \in DOMAIN msgQueue :
          /\ recvFlag[msgQueue[p].Dst]
          /\ msgQueue[p].RecvTime > recvTime[msgQueue[p].Dst]
          /\ minEnqueued[msgQueue[p].Dst] = recvTime[msgQueue[p].Dst]

\* a step of one repetition, its post-loop statistics included
WithinRepetition == pc = "loop" /\ ~(pc' = "loop" /\ rept' # rept)

C3_RespondOncePerHonestReception ==
    /\ \A u \in Nodes :
          respondCalls[u] = IF recvFlag[u] /\ ~malFlags[u] /\ ~leaveFlags[u] THEN 1 ELSE 0
    /\ \A u \in senders : ~malFlags[u] /\ ~leaveFlags[u]

\* an absent or malicious node received, a duplicate was dropped, others relayed
C3_Witness ==
    /\ dupMsg > 0
    /\ \E u \in Nodes : recvFlag[u] /\ (malFlags[u] \/ leaveFlags[u]) /\ respondCalls[u] = 0
    /\ \E v \in senders : v # root /\ respondCalls[v] = 1

(***************************************************************************)
(* A deep overlay: one Geohash cell with more nodes than Visited has steps *)
(***************************************************************************)
DeepNodes == 42

\* (bucketSize, k0Threshold, karyFactor): a K-ary tree of factor 1 (a chain),
\* a binary K-ary tree, and flooding of bucket 0
DeepParams == {<<1, 0, 1>>, <<2, 0, 2>>, <<1, 9999, 3>>}

\* all nodes in the cell "0", or node 0 in "h", node 1 in "1" and the rest in "0"
DeepHashes ==
    {[i \in 0..(DeepNodes - 1) |-> <<0>>],
     [i \in 0..(DeepNodes - 1) |-> IF i = 0 THEN <<16>> ELSE IF i = 1 THEN <<1>> ELSE <<0>>]}

DeepFlagPairs(nodes) ==
    {<<[i \in nodes |-> FALSE], [i \in nodes |-> FALSE]>>,
     <<[i \in nodes |-> i = 2], [i \in nodes |-> FALSE]>>,
     <<[i \in nodes |-> FALSE], [i \in nodes |-> i = 3]>>}

DeepInit ==
    /\ \E params \in DeepParams, hashes \in DeepHashes :
          NewMercator(DeepNodes, hashes,
                      [i \in 0..(DeepNodes - 1) |-> [Lat |-> 0, Lon |-> i]], params)
    /\ \E flags \in DeepFlagPairs(0..(DeepNodes - 1)) :
          malFlags = flags[1] /\ leaveFlags = flags[2]
    /\ root \in {0, 1}
    /\ reptTime \in ReptTimes
    /\ seed = SimulationSeed
    /\ rng = RandSeed(1)
    /\ NotStarted(0..(DeepNodes - 1))
    /\ simReptTime = 0
    /\ attack = [MaliciousRatio |-> 0, NodeLeaveRatio |-> 0]

DeepSpec == DeepInit /\ [][Next]_vars

\* C4: for any Mercator overlay and any flags the event loop of a single-root
\* broadcast empties the queue and returns a result; in particular the
\* broadcast never fails.
C4_BroadcastNeverFails == pc # "panic"

(***************************************************************************)
(* Properties of Mercator's SetRoot and Respond                            *)
(***************************************************************************)
\* SingleRootSimulation has called SetRoot and seeded the queue, nothing is popped yet
JustEntered == pc = "loop" /\ rept = 0 /\ recvList = <<>>

\* C5: whatever Visited and KaryMsgInfo hold, SetRoot leaves every
\* Visited[u][s] false and every KaryMsgInfo[u] at (RootNode -1, IsKary false):
\* this is so for a SetRoot applied to any reachable state, and it is what
\* the simulator finds right after its own SetRoot call.
C5_SetRootClears ==
    /\ \A r \in Nodes :
          LET after == SetRoot(r, Visited, KaryMsgInfo)
          IN  /\ \A u \in Nodes, st \in 0..MaxDepth : ~after.Visited[u][st]
              /\ \A u \in Nodes : after.KaryMsgInfo[u] = [RootNode |-> -1, IsKary |-> FALSE]
    /\ JustEntered =>
          /\ \A u \in Nodes, st \in 0..MaxDepth : ~Visited[u][st]
          /\ \A u \in Nodes : KaryMsgInfo[u] = [RootNode |-> -1, IsKary |-> FALSE]

\* the second call on an instance has just run SetRoot after a first broadcast
\* that reached other nodes
C5_Witness ==
    /\ JustEntered
    /\ call = 2
    /\ \E u \in Nodes : u # root /\ firstRun.recvFlag[u]
    /\ \A u \in Nodes : ~KaryMsgInfo[u].IsKary /\ ~Visited[u][0]

\* C6: Respond on a message whose (Dst, Step) is already visited returns the
\* empty list and leaves Visited and KaryMsgInfo as they are.
C6_VisitedRespondIsNoOp ==
    \A src, dst \in Nodes, st \in 0..MaxDepth :
        Visited[dst][st] =>
            LET answer == Respond(NewMessage(root, src, dst, st, 0, 0))
            IN  /\ ~answer.panic
                /\ answer.relayNodes = <<>>
                /\ answer.Visited = Visited
                /\ answer.KaryMsgInfo = KaryMsgInfo

\* the second repetition has handed the root's message to Respond, which had
\* visited (root, 0) in the first one: a root with peers has sent nothing
C6_Witness ==
    /\ pc = "loop"
    /\ rept = 1
    /\ respondCalls[root] = 1
    /\ Visited[root][0]
    /\ \E b \in 0..TotalBits : KBuckets[root][b] # <<>>
    /\ msgQueue = <<>>
    /\ senders = {}

\* C7: two SingleRootSimulation calls on one instance with the same seed,
\* root and flags return the same duplicate count, the same received nodes at
\* the same depths, and the same depth CDF.
C7_SameSeedSameOutcome ==
    (call = 2 /\ pc = "returned") =>
        /\ dupMsg = firstRun.dupMsg
        /\ recvFlag = firstRun.recvFlag
        /\ \A u \in Nodes : recvFlag[u] => depth[u] = firstRun.depth[u]
        /\ result.DepthCDF = firstRun.result.DepthCDF

\* the second call has returned from a broadcast with relays and duplicates
C7_Witness ==
    /\ call = 2
    /\ pc = "returned"
    /\ dupMsg > 0
    /\ \E u \in Nodes : u # root /\ recvFlag[u] /\ depth[u] = 2

(***************************************************************************)
(* Properties of the delays and of the reported bandwidth                  *)
(***************************************************************************)
\* C9: under Mercator a message sent in answer to the step-0 message (its Step
\* is 1) travels 1 * Distance + transmission delay, and a message of a later
\* hop 3 * Distance + transmission delay.
C9_FirstHopCoefficientOne ==
    \A p \in DOMAIN msgQueue :
        LET m == msgQueue[p]
        IN  m.Step >= 1 =>
               m.RecvTime - m.SendTime =
                   Distance(Coords[m.Src], Coords[m.Dst]) * (IF m.Step = 1 THEN 1 ELSE 3)
                   + CalculateTransmissionDelay(DataSizeSmall, BandwidthDefault)

\* C10: the bandwidth of one broadcast is (dupMsg + received) / received, where
\* received counts the nodes whose recvFlag is true when the broadcast ends.
C10_BandwidthOverReceived ==
    (pc = "returned" /\ reptTime = 1) =>
        FracEq(result.AvgBandwidth, Frac(dupMsg + RecvCount, RecvCount))

(***************************************************************************)
(* Simulation: the multi-root driver of clustering.go                      *)
(*                                                                         *)
(* rand.Intn(n) yields some node below n; which one depends on the state   *)
(* of the generator, so every node is a possible draw, and the draws move  *)
(* the generator to some other position of its cycle.  The totals that     *)
(* AccumulateResults and AverageResults keep are sums of the returned       *)
(* results and are not part of the state.                                  *)
(***************************************************************************)
\* attack ratios in percent
Ratios == {0, 34}

SimReptTime == 2

\* GenerateMaliciousNodes, GenerateLeaveNodes: count = int(n * ratio) distinct nodes
FlagCount(nodes, ratio) == (Cardinality(nodes) * ratio) \div 100

GenerateFlags(nodes, ratio) ==
    {[i \in nodes |-> i \in chosen] :
        chosen \in {c \in SUBSET nodes : Cardinality(c) = FlagCount(nodes, ratio)}}

\* a root draw the rejection loop of lines 569-572 accepts
RootRejectedOnlyMalicious(r) == malFlags[r]

\* line 570: the draw is repeated while the node is malicious or absent
RootRejected(r) == malFlags[r] \/ leaveFlags[r]

SimHashes ==
    {[i \in 0..(NumNodes - 1) |-> IF i = 0 THEN <<16>> ELSE IF i = 1 THEN <<1>> ELSE <<0>>],
     [i \in 0..(NumNodes - 1) |-> IF i = 0 THEN <<16>> ELSE <<0>>]}

SimInit ==
    /\ \E hashes \in SimHashes :
          NewMercator(NumNodes, hashes,
                      [i \in 0..(NumNodes - 1) |-> [Lat |-> 0, Lon |-> 10 * i]],
                      <<2, 0, 2>>)
    /\ malFlags = [i \in 0..(NumNodes - 1) |-> FALSE]
    /\ leaveFlags = [i \in 0..(NumNodes - 1) |-> FALSE]
    /\ root = 0
    /\ reptTime = 1
    /\ seed = SimulationSeed
    /\ rng = RandSeed(1)
    /\ NotStarted(0..(NumNodes - 1))
    /\ simReptTime = SimReptTime
    /\ \E m, l \in Ratios : attack = [MaliciousRatio |-> m, NodeLeaveRatio |-> l]

\* lines 546-549: Simulation(reptTime, coords, attackConfig, algo, ...) starts
EnterSimulation ==
    /\ pc = "idle"
    /\ rng' = RandSeed(SimulationSeed)
    /\ testTime' = 0
    /\ simRept' = 0
    /\ pc' = "generate"
    /\ UNCHANGED <<mercatorVars, algoVars, argVars, rept, runVars, historyVars,
                   seed, call, firstRun, simReptTime, testIdx, attack>>

\* lines 551-564: a repetition draws its malicious and absent nodes
GenerateAttack ==
    /\ pc = "generate"
    /\ malFlags' \in GenerateFlags(Nodes, attack.MaliciousRatio)
    /\ leaveFlags' \in GenerateFlags(Nodes, attack.NodeLeaveRatio)
    /\ rng' \in 0..(Len(NormCycle) - 1)
    /\ testIdx' = 0
    /\ pc' = "select"
    /\ UNCHANGED <<mercatorVars, algoVars, root, reptTime, rept, runVars, historyVars,
                   seed, call, firstRun, simReptTime, simRept, testTime, attack>>

\* lines 565-584: the next root is drawn until it is neither malicious nor
\* absent; NeedSpecifiedRoot is false for Mercator, so SetRoot is left to
\* SingleRootSimulation(root, 1, ...), which is entered
SelectRoot ==
    /\ pc = "select"
    /\ testIdx < TestNodes
    /\ \E r \in Nodes :
          /\ ~RootRejected(r)
          /\ EnterSingleRootSimulation(r, 1, malFlags, leaveFlags)
    /\ rng' \in 0..(Len(NormCycle) - 1)
    /\ testIdx' = testIdx + 1
    /\ testTime' = testTime + 1
    /\ call' = call + 1
    /\ UNCHANGED <<mercatorVars, seed, firstRun, simReptTime, simRept, attack>>

\* lines 584-589, 592-595: the result is accumulated; the next root, the next
\* repetition or the end of Simulation follows
ReturnToSimulation ==
    /\ pc = "returned"
    /\ IF testIdx < TestNodes
       THEN pc' = "select" /\ simRept' = simRept
       ELSE /\ simRept' = simRept + 1
            /\ pc' = IF simRept + 1 < simReptTime THEN "generate" ELSE "done"
    /\ UNCHANGED <<mercatorVars, algoVars, rng, argVars, rept, runVars, historyVars,
                   seed, call, firstRun, simReptTime, testIdx, testTime, attack>>

SimNext ==
    \/ EnterSimulation
    \/ GenerateAttack
    \/ SelectRoot
    \/ PopDuplicate
    \/ PopAbsorbed
    \/ PopForward
    \/ StatisticsReturn
    \/ ReturnToSimulation

SimSpec == SimInit /\ [][SimNext]_vars

(***************************************************************************)
(* Properties of the multi-root driver                                     *)
(***************************************************************************)
\* C8: every root Simulation hands to SingleRootSimulation is neither
\* malicious nor absent, at most TestNodes roots are started per repetition,
\* and SetRoot has run before the first message of the root is processed: the
\* instance roots its tree at this root, and Visited and KaryMsgInfo hold
\* nothing but what the Respond calls of this broadcast have written.
C8_RootsHonestAndReset ==
    /\ testIdx <= TestNodes
    /\ pc \in {"select", "loop", "returned"} => testTime = simRept * TestNodes + testIdx
    /\ pc \in {"loop", "returned"} =>
          /\ ~malFlags[root] /\ ~leaveFlags[root]
          /\ TreeRoot = root
          /\ \A u \in Nodes :
                /\ \A st \in 0..MaxDepth : Visited[u][st] => respondCalls[u] = 1
                /\ KaryMsgInfo[u].IsKary => KaryMsgInfo[u].RootNode \in senders
    /\ JustEntered => \A st \in 0..MaxDepth : ~Visited[root][st]

\* the last root of the second repetition has just been entered, with a
\* malicious and an absent node around, after the earlier roots left their marks
C8_Witness ==
    /\ JustEntered
    /\ simRept = 1
    /\ testIdx = TestNodes
    /\ testTime = 2 * TestNodes
    /\ \E u, v \in Nodes : malFlags[u] /\ leaveFlags[v] /\ u # v
    /\ \A u \in Nodes : ~Visited[u][0] /\ ~KaryMsgInfo[u].IsKary

(***************************************************************************)
(* Properties of the reception flags and the statistics                    *)
(***************************************************************************)
\* C11 (as stated): at the end of every broadcast no non-root node that is
\* flagged malicious or absent has its recv_flag set.
C11_FlaggedNeverReceived ==
    pc = "returned" =>
        \A i \in Nodes : (i # root /\ (malFlags[i] \/ leaveFlags[i])) => ~recvFlag[i]

\* C11: at the end of every broadcast a non-root node flagged malicious or
\* absent has its recv_flag set exactly when some message was addressed to it;
\* it absorbs the message: Respond is never called for it and it sends nothing.
C11_FlaggedReceivedIffReached ==
    pc = "returned" =>
        \A i \in Nodes : (i # root /\ (malFlags[i] \/ leaveFlags[i])) =>
            /\ recvFlag[i] <=> minEnqueued[i] # -1
            /\ respondCalls[i] = 0
            /\ i \notin senders

\* a finished broadcast in which a flagged peer of the root was reached
C11_Witness ==
    /\ pc = "returned"
    /\ \E i \in Nodes : /\ i # root
                         /\ (malFlags[i] \/ leaveFlags[i])
                         /\ recvFlag[i]
                         /\ recvParent[i] = root

\* C12: when the call returns, recv_time is the INF sentinel for exactly the
\* nodes that are not received, not malicious and not absent, and the
\* percentile population (recvList) holds once each received node and each such
\* uncovered node, and no other node.
C12_SentinelExactlyUncovered ==
    pc = "returned" =>
        \A i \in Nodes :
            LET uncovered == ~recvFlag[i] /\ ~malFlags[i] /\ ~leaveFlags[i]
            IN  /\ (recvTime[i] = Inf) <=> uncovered
                /\ Cardinality({p \in DOMAIN recvList : recvList[p] = i})
                     = (IF recvFlag[i] \/ uncovered THEN 1 ELSE 0)

\* a finished broadcast that left an honest node uncovered and a flagged node
\* unreached
C12_Witness ==
    /\ pc = "returned"
    /\ \E i \in Nodes : ~recvFlag[i] /\ ~malFlags[i] /\ ~leaveFlags[i] /\ recvTime[i] = Inf
    /\ \E j \in Nodes : ~recvFlag[j] /\ (malFlags[j] \/ leaveFlags[j])

\* C13 (as stated): with a single node the call returns with the root as the
\* sole receiver after one pop, bandwidth 1, latency 0 at every percentile
\* index (5% to 100%) and the root at depth 0.
C13_SingleNodeResult ==
    (pc = "returned" /\ n = 1) =>
        /\ recvList = <<root>>
        /\ recvFlag[root]
        /\ dupMsg = 0
        /\ depth[root] = 0
        /\ FracEq(result.AvgBandwidth, Frac(1, 1))
        /\ \A k \in 0..19 : FracEq(result.Latency[k], Frac(0, 1))

\* C14 (as stated): in the returned TestResult the latency percentiles are
\* non-decreasing from the 5% entry (slot 0) to the 100% entry (slot 19).
C14_PercentilesNonDecreasing ==
    pc = "returned" =>
        \A k \in 0..18 : ~FracLess(result.Latency[k + 1], result.Latency[k])

\* lines 457-475: the sum of DepthCDF over [0, MaxDepth), times den
RECURSIVE DepthCDFTotalFrom(_, _, _)
DepthCDFTotalFrom(res, den, d) ==
    IF d >= MaxDepth THEN 0
    ELSE (res.DepthCDF[d][1] * den) \div res.DepthCDF[d][2]
         + DepthCDFTotalFrom(res, den, d + 1)

DepthCDFTotal(res, den) == DepthCDFTotalFrom(res, den, 0)

\* C15 (as stated): after a call of one broadcast the entries of depth_cdf sum
\* to (number of nodes with recv_flag) / (receive-list size).
C15_DepthCDFSumsToReceived ==
    (pc = "returned" /\ reptTime = 1) =>
        DepthCDFTotal(result, Len(recvList)) = RecvCount

\* C15: after a call of one broadcast the entries of depth_cdf sum to (number
\* of receive-list entries with depth below MaxDepth) / (receive-list size);
\* the uncovered nodes are entries of the list and are counted in the last
\* slot, MaxDepth-1.
C15_DepthCDFCountsWholeList ==
    (pc = "returned" /\ reptTime = 1) =>
        /\ DepthCDFTotal(result, Len(recvList))
             = Cardinality({p \in DOMAIN recvList : depth[recvList[p]] < MaxDepth})
        /\ (result.DepthCDF[MaxDepth - 1][1] * Len(recvList))
                \div result.DepthCDF[MaxDepth - 1][2]
             >= Len(recvList) - RecvCount

\* a finished single broadcast that left an honest node uncovered
C15_Witness ==
    /\ pc = "returned"
    /\ reptTime = 1
    /\ RecvCount >= 2
    /\ RecvCount < Len(recvList)

\* C16: every message held by the queue during a broadcast, and so every
\* message popped from it, has RecvTime >= SendTime and Step >= 0.
C16_PoppedTimesAndSteps ==
    pc = "loop" =>
        \A p \in DOMAIN msgQueue :
            /\ msgQueue[p].RecvTime >= msgQueue[p].SendTime
            /\ msgQueue[p].Step >= 0

\* the next message to pop was relayed by a node: it has a positive step and
\* a propagation delay
C16_Witness ==
    /\ pc = "loop"
    /\ msgQueue # <<>>
    /\ Pop(msgQueue).msg.Step >= 2
    /\ Pop(msgQueue).msg.RecvTime > Pop(msgQueue).msg.SendTime
    /\ Pop(msgQueue).msg.SendTime > 0

\* C17: after every step, each queued message other than the seed carries
\* Step = depth[Src] + 1 and the seed carries Step 0; whenever a node is first
\* received the accepted message's Step equals the depth recorded for the node,
\* and so does the Step of the message every Respond call is given.
C17_StepIsDepth ==
    [][/\ \A p \in DOMAIN msgQueue' :
            LET m == msgQueue'[p]
            IN  IF m.Src = m.Dst
                THEN m.Dst = root' /\ m.Step = 0
                ELSE recvFlag'[m.Src] /\ m.Step = depth'[m.Src] + 1
       /\ \A v \in Nodes :
            /\ (pc = "loop" /\ ~recvFlag[v] /\ recvFlag'[v])
                    => Pop(msgQueue).msg.Step = depth'[v]
            /\ (pc = "loop" /\ respondCalls'[v] = respondCalls[v] + 1)
                    => (Pop(msgQueue).msg.Dst = v /\ Pop(msgQueue).msg.Step = depth'[v])
      ]_vars

\* a node two hops from the root has received and answered
C17_Witness ==
    /\ pc = "loop"
    /\ \E v \in Nodes : recvFlag[v] /\ depth[v] = 2 /\ respondCalls[v] = 1

(***************************************************************************)
(* Graph under direct AddEdge / DelEdge calls                              *)
(***************************************************************************)
GraphNodes == 3

\* calls that would take the graph beyond MaxEdges edges are not made
MaxEdges == 4

\* at most this many DelEdge calls name an edge that is not in the graph
MaxMissedDeletes == 2

overlayVars == <<n, Coords, NodeGeohash, KBuckets, BucketSize, GeohashGroups, TotalBits,
                 K0Threshold, KaryFactor>>

\* NewGraph(GraphNodes), next to an idle one-node simulator
GraphInit ==
    /\ MercatorOverlay(1, [i \in 0..0 |-> <<0>>], [i \in 0..0 |-> [Lat |-> 0, Lon |-> 0]],
                       <<1, 9999, 3>>)
    /\ Graph = NewGraph(GraphNodes)
    /\ malFlags = [i \in 0..0 |-> FALSE]
    /\ leaveFlags = [i \in 0..0 |-> FALSE]
    /\ root = 0
    /\ reptTime = 1
    /\ seed = SimulationSeed
    /\ rng = RandSeed(1)
    /\ NotStarted(0..0)
    /\ simReptTime = 0
    /\ attack = [MaliciousRatio |-> 0, NodeLeaveRatio |-> 0]

\* g.AddEdge(u, v) for any pair of nodes
GraphAddEdge ==
    \E u \in 0..(Graph.N - 1), v \in 0..(Graph.N - 1) :
        LET added == AddEdge(Graph, u, v)
        IN  /\ added.ok => OutDegreeSum(Graph) < MaxEdges
            /\ Graph' = added.Graph
            /\ lastOp' = IF added.ok THEN "added" ELSE "rejected"
            /\ UNCHANGED <<overlayVars, libVars, algoVars, rng, argVars, rept, runVars,
                           pc, callerVars, historyVars>>

\* g.DelEdge(u, v) for any pair of nodes
GraphDelEdge ==
    \E u \in 0..(Graph.N - 1), v \in 0..(Graph.N - 1) :
        LET present == v \in Range(Graph.OutBound[u])
        IN  /\ ~present => OutDegreeSum(Graph) - Graph.M < MaxMissedDeletes
            /\ Graph' = DelEdge(Graph, u, v)
            /\ lastOp' = IF present THEN "deleted" ELSE "missed"
            /\ UNCHANGED <<overlayVars, libVars, algoVars, rng, argVars, rept, runVars,
                           pc, callerVars, historyVars>>

GraphNext == GraphAddEdge \/ GraphDelEdge

GraphSpec == GraphInit /\ [][GraphNext]_vars

\* C18: after any sequence of AddEdge / DelEdge calls, v is in OutBound[u]
\* exactly when u is in InBound[v], no node is its own neighbour, and no
\* adjacency list holds a neighbour twice.
C18_AdjacencyConsistent ==
    \A u \in 0..(Graph.N - 1) :
        /\ \A v \in 0..(Graph.N - 1) :
                v \in Range(Graph.OutBound[u]) <=> u \in Range(Graph.InBound[v])
        /\ u \notin Range(Graph.OutBound[u])
        /\ u \notin Range(Graph.InBound[u])
        /\ NoDup(Graph.OutBound[u])
        /\ NoDup(Graph.InBound[u])

\* an edge was just deleted from a graph that had MaxEdges edges, and some
\* node still has both an outbound and an inbound neighbour
C18_Witness ==
    /\ lastOp = "deleted"
    /\ \E u \in 0..(Graph.N - 1) : Graph.OutBound[u] # <<>> /\ Graph.InBound[u] # <<>>
    /\ OutDegreeSum(Graph) = MaxEdges - 1

\* C19 (as stated): after any sequence of AddEdge / DelEdge calls, rejected
\* additions and deletions of absent edges included, M equals the sum of the
\* outbound list sizes.
C19_EdgeCountIsOutDegreeSum == Graph.M = OutDegreeSum(Graph)

(***************************************************************************)
(* Frame of Respond and SetRoot                                            *)
(***************************************************************************)
\* C20 (as stated): no step of a broadcast trial changes any field of the
\* Mercator instance other than Visited and KaryMsgInfo: the k-buckets, the
\* Geohash groups (membership and order), the graph and everything else stay.
C20_OnlyVisitedAndKaryChange ==
    [][UNCHANGED <<n, Coords, NodeGeohash, KBuckets, GeohashGroups, TotalBits,
                   K0Threshold, KaryFactor, Graph, TreeRoot>>]_vars

\* C20: no step of a broadcast trial changes the k-buckets, the Geohash groups
\* (membership and order), the graph or the construction parameters; besides
\* Visited and KaryMsgInfo the only field that changes is TreeRoot, which
\* SetRoot sets to the root of the call.
C20_OverlayImmutable ==
    [][/\ UNCHANGED <<n, Coords, NodeGeohash, KBuckets, GeohashGroups, TotalBits,
                      K0Threshold, KaryFactor, Graph>>
       /\ (TreeRoot' # TreeRoot) => (call' = call + 1 /\ TreeRoot' = root')
      ]_vars

\* SetRoot has moved the tree root and a node of a K-ary tree, whose Respond
\* sorts its Geohash group, has answered
C20_Witness ==
    /\ pc = "loop"
    /\ TreeRoot # 0
    /\ Graph.M > 0
    /\ \E v \in Nodes : KaryMsgInfo[v].IsKary /\ respondCalls[v] = 1

(***************************************************************************)
(* The Geohash library called directly: Decode followed by Encode at the  *)
(* precision of the hash, and FirstDiffBitPos on two bit strings.          *)
(***************************************************************************)
MaxGeoPrec == 2
LongGeoPrec == 13
MaxBits == 3

\* the valid hashes of one precision: sequences of Base32 character indices
Geohashes(precision) == [1..precision -> 0..(Pow2(GeoBitsPerChar) - 1)]

\* the precisions at which GetGeoBucketIndex is called: one character, the
\* longest hash of 5*12 = 60 bits that fits a uint and the first that does not
BucketIndexPrecs == {1, LongGeoPrec - 1, LongGeoPrec}

\* hashes of one precision that differ at most in their first and last character
EdgeHashes(precision) ==
    {[p \in 1..precision |-> IF p = 1 THEN first ELSE IF p = precision THEN last ELSE 0] :
        first \in {0, 1, 16}, last \in {0, 1, 16}}

\* the node hashes and the prefixes given to the prefix tree: PrefixNodes hashes
\* of precision MaxGeoPrec and every prefix of up to MaxGeoPrec characters, over
\* two Base32 characters
PrefixNodes == 3
PrefixHashes == [1..MaxGeoPrec -> {0, 1}]
Prefixes == UNION {[1..len -> {0, 1}] : len \in 0..MaxGeoPrec}

\* the strings over "0" and "1" of up to MaxBits characters
BitStrings == UNION {[1..len -> {0, 1}] : len \in 0..MaxBits}

simulatorVars == <<overlayVars, graphVars, algoVars, rng, argVars, rept, runVars, pc,
                   callerVars, historyVars>>

\* a caller about to decode a hash or to compare two bit strings
GeoInit ==
    /\ MercatorOverlay(1, [i \in 0..0 |-> <<0>>], [i \in 0..0 |-> [Lat |-> 0, Lon |-> 0]],
                       <<1, 9999, 3>>)
    /\ Graph = NewGraph(1)
    /\ malFlags = [i \in 0..0 |-> FALSE]
    /\ leaveFlags = [i \in 0..0 |-> FALSE]
    /\ root = 0
    /\ reptTime = 1
    /\ seed = SimulationSeed
    /\ rng = RandSeed(1)
    /\ NoSimulation(0..0)
    /\ simReptTime = 0
    /\ attack = [MaliciousRatio |-> 0, NodeLeaveRatio |-> 0]
    /\ \/ \E precision \in 1..MaxGeoPrec : \E h \in Geohashes(precision) :
            geoArg = <<"Decode", h>>
       \/ \E aBin \in BitStrings, bBin \in BitStrings :
            geoArg = <<"FirstDiffBitPos", aBin, bBin>>
       \/ \E nodeGeohash \in [1..PrefixNodes -> PrefixHashes], prefix \in Prefixes :
            geoArg = <<"FindNodesWithPrefix", nodeGeohash, prefix>>
       \/ \E precision \in BucketIndexPrecs :
            \E hashA \in EdgeHashes(precision), hashB \in EdgeHashes(precision) :
                geoArg = <<"GetGeoBucketIndex", hashA, hashB>>
    /\ geoRet = <<>>
    /\ LocalCoord = <<>>
    /\ vivaldiState = <<>>

\* lat, lon := encoder.Decode(h)
CallDecode ==
    /\ geoArg[1] = "Decode"
    /\ geoRet = <<>>
    /\ geoRet' = <<Decode(geoArg[2])>>
    /\ UNCHANGED <<geoArg, LocalCoord, vivaldiState, simulatorVars>>

\* encoder.Encode(lat, lon) with Precision = len(h), on the decoded point
CallEncode ==
    /\ geoArg[1] = "Decode"
    /\ Len(geoRet) = 1
    /\ geoRet' = Append(geoRet, Encode(geoRet[1][1], geoRet[1][2], Len(geoArg[2])))
    /\ UNCHANGED <<geoArg, LocalCoord, vivaldiState, simulatorVars>>

\* FirstDiffBitPos(aBin, bBin)
CallFirstDiffBitPos ==
    /\ geoArg[1] = "FirstDiffBitPos"
    /\ geoRet = <<>>
    /\ geoRet' = <<FirstDiffBitPos(geoArg[2], geoArg[3])>>
    /\ UNCHANGED <<geoArg, LocalCoord, vivaldiState, simulatorVars>>

\* GetGeoBucketIndex(hashA, hashB, totalBits) with totalBits = 5 * len(hashA)
CallGetGeoBucketIndex ==
    /\ geoArg[1] = "GetGeoBucketIndex"
    /\ geoRet = <<>>
    /\ geoRet' = <<GetGeoBucketIndex(geoArg[2], geoArg[3], GeoBitsPerChar * Len(geoArg[2]))>>
    /\ UNCHANGED <<geoArg, LocalCoord, vivaldiState, simulatorVars>>

\* m.PrefixTree = hw.BuildPrefixTree(m.NodeGeohash)
CallBuildPrefixTree ==
    /\ geoArg[1] = "FindNodesWithPrefix"
    /\ geoRet = <<>>
    /\ geoRet' = <<BuildPrefixTree(geoArg[2])>>
    /\ UNCHANGED <<geoArg, LocalCoord, vivaldiState, simulatorVars>>

\* cands := hw.FindNodesWithPrefix(m.PrefixTree, prefix)
CallFindNodesWithPrefix ==
    /\ geoArg[1] = "FindNodesWithPrefix"
    /\ Len(geoRet) = 1
    /\ geoRet' = Append(geoRet, FindNodesWithPrefix(geoRet[1], geoArg[3]))
    /\ UNCHANGED <<geoArg, LocalCoord, vivaldiState, simulatorVars>>

GeoNext ==
    \/ CallDecode
    \/ CallEncode
    \/ CallFirstDiffBitPos
    \/ CallGetGeoBucketIndex
    \/ CallBuildPrefixTree
    \/ CallFindNodesWithPrefix

GeoSpec == GeoInit /\ [][GeoNext]_vars

\* C21: encoding the decoded centre of a valid hash, at the precision of the
\* hash, gives the hash back
C21_EncodeDecodeRoundTrip ==
    (geoArg # <<>> /\ geoArg[1] = "Decode" /\ Len(geoRet) = 2) => geoRet[2] = geoArg[2]

\* a hash of two characters, the second one not the first of the alphabet, has
\* been decoded and encoded again
C21_Witness ==
    /\ geoArg # <<>> /\ geoArg[1] = "Decode" /\ Len(geoRet) = 2
    /\ Len(geoArg[2]) = 2 /\ geoArg[2][2] = 17
    /\ Len(geoRet[2]) = 2

\* C22: FirstDiffBitPos returns -1 exactly when the two bit strings are equal,
\* and the leftmost differing position when they are not
C22_MinusOneIffEqual ==
    (geoArg # <<>> /\ geoArg[1] = "FirstDiffBitPos" /\ geoRet # <<>>) =>
        LET aBin == geoArg[2]
            bBin == geoArg[3]
        IN  /\ geoRet[1] = -1 <=> aBin = bBin
            /\ aBin # bBin =>
                  /\ \A p \in 1..geoRet[1] :
                        p <= Len(aBin) /\ p <= Len(bBin) /\ aBin[p] = bBin[p]
                  /\ ~ ( /\ geoRet[1] + 1 <= Len(aBin) /\ geoRet[1] + 1 <= Len(bBin)
                          /\ aBin[geoRet[1] + 1] = bBin[geoRet[1] + 1] )

(***************************************************************************)
(* Four nodes on the equator, their Geohash computed from their            *)
(* coordinates: node i lies at longitude i, or the same distance into one  *)
(* of two other cells.                                                     *)
(***************************************************************************)
ScenarioNodes == 4
ScenarioGeoPrec == 2

\* node i at longitude i plus an offset: none, into the neighbouring cell, into
\* a cell a quarter turn away, or into the cell next to that one
ScenarioLayouts ==
    {[i \in 0..(ScenarioNodes - 1) |-> [Lat |-> 0, Lon |-> i + shift[i]]] :
        shift \in {f \in [0..(ScenarioNodes - 1) -> {0, 12, 90, 100}] : f[0] = 0}}

\* fillKBuckets step 1: NodeGeohash[i] = encoder.Encode(lat, lon)
EncodeAll(coords, precision) ==
    [i \in DOMAIN coords |->
        Encode(coords[i].Lat * GeoScale, coords[i].Lon * GeoScale, precision)]

\* (bucketSize, k0Threshold, karyFactor): flooding, and K-ary trees of degree 2 and 1
ScenarioParams == {<<4, 9999, 3>>, <<4, 1, 2>>, <<2, 0, 1>>}

\* no flagged node, or the last node malicious or absent
ScenarioFlags ==
    LET nodes == 0..(ScenarioNodes - 1)
        last == [i \in nodes |-> i = ScenarioNodes - 1]
        none == [i \in nodes |-> FALSE]
    IN  {<<none, none>>, <<last, none>>, <<none, last>>}

ScenarioInit ==
    /\ \E coords \in ScenarioLayouts, params \in ScenarioParams :
            NewMercator(ScenarioNodes, EncodeAll(coords, ScenarioGeoPrec), coords, params)
    /\ \E flags \in ScenarioFlags : malFlags = flags[1] /\ leaveFlags = flags[2]
    /\ root \in 0..(ScenarioNodes - 1)
    /\ reptTime \in ReptTimes
    /\ seed = SimulationSeed
    /\ rng = RandSeed(1)
    /\ NotStarted(0..(ScenarioNodes - 1))
    /\ simReptTime = 0
    /\ attack = [MaliciousRatio |-> 0, NodeLeaveRatio |-> 0]

ScenarioSpec == ScenarioInit /\ [][Next]_vars

\* the four collinear nodes (0,0), (0,1), (0,2), (0,3) with k0_threshold 9999,
\* no flagged node and root 0, called for one broadcast
FourCollinear ==
    /\ reptTime = 1
    /\ \A i \in Nodes : Coords[i] = [Lat |-> 0, Lon |-> i]
    /\ K0Threshold = 9999
    /\ \A i \in Nodes : ~malFlags[i] /\ ~leaveFlags[i]
    /\ root = 0

\* C23: in the four-node scenario the broadcast from root 0 reaches every node,
\* without any duplicate, and the reported bandwidth is 1
C23_FourNodesOnceEach ==
    (FourCollinear /\ pc = "returned") =>
        /\ \A i \in Nodes : recvFlag[i]
        /\ dupMsg = 0
        /\ FracEq(result.AvgBandwidth, Frac(1, 1))

\* the scenario has returned after the relays answered their step-1 messages
C23_Witness ==
    /\ FourCollinear /\ pc = "returned"
    /\ \A i \in Nodes : recvFlag[i]
    /\ \A i \in Nodes \ {root} : respondCalls[i] = 1 /\ depth[i] = 1
    /\ lastRespond.msg.Step = 1

\* C24: in a cell of N nodes handled by a K-ary tree of factor k (every node in
\* one cell, K0 buckets above the threshold, nobody flagged, one broadcast), no
\* Respond call emits more than k targets and, whichever member is the root,
\* every node has received within ceil(log_k N) hops when the broadcast returns
C24_KaryCoversCellInLogHops ==
    LET RECURSIVE Hops(_, _)
        Hops(reach, h) == IF reach >= n THEN h ELSE Hops(reach * KaryFactor, h + 1)
        oneCellKary ==
            /\ \A i \in Nodes : NodeGeohash[i] = NodeGeohash[root]
            /\ \A i \in Nodes : Len(KBuckets[i][0]) > K0Threshold
            /\ KaryFactor >= 2
            /\ \A i \in Nodes : ~malFlags[i] /\ ~leaveFlags[i]
            /\ reptTime = 1
    IN  oneCellKary =>
            /\ Len(lastRespond.relayNodes) <= KaryFactor
            /\ pc = "returned" => \A i \in Nodes : recvFlag[i] /\ depth[i] <= Hops(1, 0)

(***************************************************************************)
(* The forwarding contract of Respond, read off the latest call             *)
(***************************************************************************)
\* the latest Respond call computed a list: the step was in range and the
\* (node, step) pair had not been handled before
Responded == lastRespond.msg.Dst >= 0 /\ ~lastRespond.panic /\ ~lastRespond.visited

\* the ids at the K-ary child positions of u in the ascending list of the nodes
\* whose Geohash is that of member, src left out
KaryChildrenIn(u, member, src) ==
    LET same == SortInts(SelectSeq(Iota(n), LAMBDA v : NodeGeohash[v] = NodeGeohash[member]))
        at == {p \in 1..Len(same) : same[p] = u}
        positions == IF at = {} THEN {}
                     ELSE LET idx == (CHOOSE p \in at : TRUE) - 1
                          IN  {c \in 1..Len(same) :
                                 /\ c - 1 > idx * KaryFactor
                                 /\ c - 1 <= idx * KaryFactor + KaryFactor}
    IN  SelectSeq(same, LAMBDA v : v # src /\ \E c \in positions : same[c] = v)

\* the members other than src of the buckets lo .. hi of u, bucket by bucket
RECURSIVE OuterMembers(_, _, _, _)
OuterMembers(u, src, lo, hi) ==
    IF lo > hi THEN <<>>
    ELSE OuterMembers(u, src, lo, hi - 1) \o SelectSeq(KBuckets[u][hi], LAMBDA v : v # src)

\* C26: at step 0 Respond returns all of KB[u][0] when it is within the
\* threshold, else only u's K-ary children in the ascending same-hash list (at
\* most kary_factor, each marked (u, true)); then every member of every outer
\* bucket 1 .. TotalBits; msg.src is never in the list
C26_SourceRelayList ==
    (Responded /\ lastRespond.msg.Step = 0) =>
        LET u == lastRespond.msg.Dst
            src == lastRespond.msg.Src
            flood == Len(KBuckets[u][0]) <= K0Threshold
            children == KaryChildrenIn(u, u, src)
            inner == IF flood THEN SelectSeq(KBuckets[u][0], LAMBDA v : v # src)
                     ELSE children
        IN  /\ lastRespond.relayNodes = inner \o OuterMembers(u, src, 1, TotalBits)
            /\ ~flood => /\ Len(children) <= KaryFactor
                          /\ \A v \in Range(children) :
                                KaryMsgInfo[v] = [RootNode |-> u, IsKary |-> TRUE]
            /\ src \notin Range(lastRespond.relayNodes)

\* a source with a K0 bucket above the threshold and a non-empty outer bucket
\* has emitted a K-ary child followed by outer-bucket peers
C26_Witness ==
    /\ Responded /\ lastRespond.msg.Step = 0
    /\ Len(KBuckets[root][0]) > K0Threshold
    /\ KaryChildrenIn(root, root, root) # <<>>
    /\ OuterMembers(root, root, 1, TotalBits) # <<>>
    /\ Len(lastRespond.relayNodes) >= 2

\* bucket_index_between: TotalBits minus the first differing bit position of
\* the two binary expansions, 0 for equal hashes
BucketIndexBetween(u, v) ==
    LET diff == FirstDiffBitPos(ToBinary(NodeGeohash[u]), ToBinary(NodeGeohash[v]))
    IN  IF diff = -1 THEN 0 ELSE TotalBits - diff

\* C27: at step > 0 with src_bucket > 0 the outer-bucket part of the relay list
\* is exactly the members other than src of the buckets 1 <= b < src_bucket:
\* the list ends with them, what precedes them lies in u's own cell, and no peer
\* of a bucket b >= src_bucket is in the list
C27_OuterBucketsBelowSrcBucket ==
    LET u == lastRespond.msg.Dst
        src == lastRespond.msg.Src
        srcBucket == BucketIndexBetween(u, src)
        outer == OuterMembers(u, src, 1, srcBucket - 1)
        relay == lastRespond.relayNodes
    IN  (Responded /\ lastRespond.msg.Step > 0 /\ srcBucket > 0) =>
            /\ Len(relay) >= Len(outer)
            /\ SubSeq(relay, Len(relay) - Len(outer) + 1, Len(relay)) = outer
            /\ \A p \in 1..(Len(relay) - Len(outer)) : NodeGeohash[relay[p]] = NodeGeohash[u]
            /\ \A v \in Range(relay) :
                  \/ NodeGeohash[v] = NodeGeohash[u]
                  \/ \E b \in 1..(srcBucket - 1) : v \in Range(KBuckets[u][b])

\* a relay reached from a bucket above 1 has forwarded into a lower outer
\* bucket, while a higher bucket of it is not empty
C27_Witness ==
    LET u == lastRespond.msg.Dst
        src == lastRespond.msg.Src
        srcBucket == BucketIndexBetween(u, src)
    IN  /\ Responded /\ lastRespond.msg.Step > 0 /\ srcBucket > 1
        /\ \E v \in Range(lastRespond.relayNodes) :
              \E b \in 1..(srcBucket - 1) : v \in Range(KBuckets[u][b])
        /\ \E b \in srcBucket..TotalBits :
              \E v \in Range(KBuckets[u][b]) : v # src /\ v \notin Range(lastRespond.relayNodes)

\* C28: at step > 0 an unmarked relay whose sender lies in its own cell
\* (src_bucket = 0) still performs the K0 handling, flooding KB[u][0] minus src
\* within the threshold and emitting its K-ary children above it, and forwards
\* to no outer bucket
C28_SameCellRelayHandlesK0 ==
    LET u == lastRespond.msg.Dst
        src == lastRespond.msg.Src
    IN  ( /\ Responded /\ lastRespond.msg.Step > 0
          /\ ~lastRespond.kary.IsKary /\ BucketIndexBetween(u, src) = 0 ) =>
            lastRespond.relayNodes =
                IF Len(KBuckets[u][0]) <= K0Threshold
                THEN SelectSeq(KBuckets[u][0], LAMBDA v : v # src)
                ELSE KaryChildrenIn(u, u, src)

\* C28, as the code has it: at step > 0 an unmarked relay whose sender lies in
\* its own cell forwards to nobody, neither into K0 nor into an outer bucket
C28_SameCellRelayIsSilent ==
    LET u == lastRespond.msg.Dst
        src == lastRespond.msg.Src
    IN  ( /\ Responded /\ lastRespond.msg.Step > 0
          /\ ~lastRespond.kary.IsKary /\ BucketIndexBetween(u, src) = 0 ) =>
            lastRespond.relayNodes = <<>>

\* an unmarked relay with further K0 peers and a non-empty outer bucket has
\* answered a message from its own cell
C28_Witness ==
    LET u == lastRespond.msg.Dst
        src == lastRespond.msg.Src
    IN  /\ Responded /\ lastRespond.msg.Step > 0
        /\ ~lastRespond.kary.IsKary /\ BucketIndexBetween(u, src) = 0
        /\ \E v \in Range(KBuckets[u][0]) : v # src
        /\ OuterMembers(u, src, 1, TotalBits) # <<>>
        /\ lastRespond.relayNodes = <<>>

\* C29: at step > 0 a K-ary-marked relay returns solely its K-ary children (at
\* most kary_factor) within the ascending same-hash list of the recorded root
\* node, each marked (root_node, true): no K0 flood peer, no outer-bucket peer
C29_MarkedRelayOnlyChildren ==
    LET u == lastRespond.msg.Dst
        src == lastRespond.msg.Src
        markRoot == lastRespond.kary.RootNode
        children == KaryChildrenIn(u, markRoot, src)
    IN  (Responded /\ lastRespond.msg.Step > 0 /\ lastRespond.kary.IsKary) =>
            /\ lastRespond.relayNodes = children
            /\ Len(children) <= KaryFactor
            /\ \A v \in Range(children) :
                  KaryMsgInfo[v] = [RootNode |-> markRoot, IsKary |-> TRUE]

\* C29, as the code has it: at step > 0 a K-ary-marked relay returns its K-ary
\* children within the ascending same-hash list of the recorded root node, each
\* marked (root_node, true), followed by the members other than src of its
\* outer buckets below src_bucket; it adds no K0 flood peer
C29_MarkedRelayChildrenThenOuter ==
    LET u == lastRespond.msg.Dst
        src == lastRespond.msg.Src
        markRoot == lastRespond.kary.RootNode
        children == KaryChildrenIn(u, markRoot, src)
    IN  (Responded /\ lastRespond.msg.Step > 0 /\ lastRespond.kary.IsKary) =>
            /\ lastRespond.relayNodes =
                  children \o OuterMembers(u, src, 1, BucketIndexBetween(u, src) - 1)
            /\ Len(children) <= KaryFactor
            /\ \A v \in Range(children) :
                  KaryMsgInfo[v] = [RootNode |-> markRoot, IsKary |-> TRUE]

\* a marked relay, reached from its own cell, has passed the mark of a root
\* other than itself on to a child while it has K0 peers that are not children
C29_Witness ==
    LET u == lastRespond.msg.Dst
        src == lastRespond.msg.Src
        markRoot == lastRespond.kary.RootNode
    IN  /\ Responded /\ lastRespond.msg.Step > 0 /\ lastRespond.kary.IsKary
        /\ markRoot # u
        /\ lastRespond.relayNodes # <<>>
        /\ lastRespond.relayNodes = KaryChildrenIn(u, markRoot, src)
        /\ \E v \in Range(KBuckets[u][0]) : v # src /\ v \notin Range(lastRespond.relayNodes)

\* C30: between two SetRoot calls KaryMsgInfo[v] changes only when a Respond
\* call emits v as a K-ary child; it then becomes (R, true), R being a node of
\* v's Geohash that initiated the subtree (the responding node when unmarked,
\* else the root recorded for it); a set IsKary does not revert
C30_KaryMarkTransitions ==
    [][ call' = call =>
          \A v \in Nodes :
              /\ KaryMsgInfo[v].IsKary => KaryMsgInfo'[v].IsKary
              /\ KaryMsgInfo'[v] # KaryMsgInfo[v] =>
                    LET u == lastRespond'.msg.Dst
                        initiator == IF lastRespond'.kary.IsKary
                                     THEN lastRespond'.kary.RootNode ELSE u
                    IN  /\ respondCalls'[u] = respondCalls[u] + 1
                        /\ v \in Range(lastRespond'.relayNodes)
                        /\ KaryMsgInfo'[v] = [RootNode |-> initiator, IsKary |-> TRUE]
                        /\ NodeGeohash[initiator] = NodeGeohash[v]
                        /\ NodeGeohash[u] = NodeGeohash[v] ]_vars

\* a marked relay has handed the root recorded for it, not itself, to a child
C30_Witness ==
    /\ Responded /\ lastRespond.kary.IsKary
    /\ \E v \in Range(lastRespond.relayNodes) :
          /\ KaryMsgInfo[v].IsKary
          /\ KaryMsgInfo[v].RootNode = lastRespond.kary.RootNode
          /\ KaryMsgInfo[v].RootNode # lastRespond.msg.Dst
          /\ respondCalls[v] = 0

(***************************************************************************)
(* Vivaldi coordinate updates: vivaldi.go, vivaldi_plusplus.go              *)
(***************************************************************************)
\* a float64 is kept as an integer number of hundredths; products and quotients
\* are cut to hundredths
FixOne == 100

FixMul(a, b) == GoDiv(a * b, FixOne)

FixDiv(a, b) == GoDiv(a * FixOne, b)

\* 0.25, 0.5, 0.01 and 100.0 in hundredths
VivaldiCc == 25
VivaldiCe == 50
VivaldiMinError == 1
DefaultFc == 10000

\* math.Sqrt, cut to a whole number
RECURSIVE SqrtBetween(_, _, _)
SqrtBetween(x, lo, hi) ==
    IF lo >= hi THEN lo
    ELSE LET mid == (lo + hi + 1) \div 2
         IN  IF mid * mid <= x THEN SqrtBetween(x, mid, hi) ELSE SqrtBetween(x, lo, mid - 1)

\* DistanceVivaldi: Euclidean distance of the vectors plus both heights
DistanceVivaldi(a, b) ==
    SqrtBetween(SumSeq([i \in DOMAIN a.Vector |->
                          (a.Vector[i] - b.Vector[i]) * (a.Vector[i] - b.Vector[i])]),
                0, 40000)
    + a.Height + b.Height

\* localError / (localError + peerError), kept within [0, 1]
BaseWeight(localError, peerError) ==
    LET weight == FixDiv(localError, localError + peerError)
    IN  IF weight > FixOne THEN FixOne ELSE IF weight < 0 THEN 0 ELSE weight

\* an error estimate that is left as computed
ErrorFloorNone(err) == err

\* if Error < VivaldiMinError { Error = VivaldiMinError }
ErrorFloor(err) == IF err < VivaldiMinError THEN VivaldiMinError ELSE err

\* if Height < 0 { Height = 0 }
HeightFloor(height) == IF height < 0 THEN 0 ELSE height

\* force * heightDiff / |heightDiff|, for |heightDiff| > 1e-6
HeightDelta(force, heightDiff) ==
    IF heightDiff # 0 THEN FixDiv(FixMul(force, heightDiff), Abs(heightDiff)) ELSE 0

\* the vector displacement force * direction / predictedRTT, for predictedRTT > 1e-6
VectorDelta(local, peer, force, predictedRTT) ==
    [i \in DOMAIN local.Vector |->
        IF predictedRTT > 0
        THEN FixDiv(FixMul(force, local.Vector[i] - peer.Vector[i]), predictedRTT)
        ELSE 0]

\* Observe(vm, peerID, peerCoord, rtt): the coordinate it leaves in vm.LocalCoord
Observe(local, peerCoord, rtt) ==
    LET predictedRTT == DistanceVivaldi(local, peerCoord)
        relativeError == IF rtt <= 0 THEN 0 ELSE FixDiv(Abs(predictedRTT - rtt), rtt)
        weight == BaseWeight(local.Error, peerCoord.Error)
        delta == IF FixMul(VivaldiCc, weight) > FixOne THEN FixOne
                 ELSE FixMul(VivaldiCc, weight)
        force == FixMul(delta, rtt - predictedRTT)
        move == VectorDelta(local, peerCoord, force, predictedRTT)
    IN  [Vector |-> [i \in DOMAIN local.Vector |-> local.Vector[i] + move[i]],
         Height |-> HeightFloor(local.Height
                                + HeightDelta(force, local.Height - peerCoord.Height)),
         Error |-> ErrorFloor(FixMul(FixMul(relativeError, VivaldiCe), weight)
                              + FixMul(local.Error, FixOne - FixMul(VivaldiCe, weight)))]

\* ApplyFreeze: a displacement longer than fc is scaled down to length fc
ApplyFreeze(deltaX, fc) ==
    LET norm == SqrtBetween(SumSeq([i \in DOMAIN deltaX |-> deltaX[i] * deltaX[i]]), 0, 40000)
    IN  IF norm > fc THEN [i \in DOMAIN deltaX |-> FixMul(deltaX[i], FixDiv(fc, norm))]
        ELSE deltaX

\* ObservePlusPlus(state, peerID, peerCoord, rtt, round, config, coords): the
\* coordinate it leaves in state.Coord. The median of the RTT history, the
\* node weight of the neighbour history and the TIV weight are taken as given.
ObservePlusPlus(local, phase, currentCc, peerCoord, rtt, trackedMedian, nodeWeight, tivWeight) ==
    LET medianRTT == IF trackedMedian <= 0 THEN rtt ELSE trackedMedian
        predictedRTT == DistanceVivaldi(local, peerCoord)
        relativeError == IF medianRTT <= 0 THEN 0
                         ELSE FixDiv(Abs(predictedRTT - medianRTT), medianRTT)
        wBase == BaseWeight(local.Error, peerCoord.Error)
        wNode == IF nodeWeight = 0 THEN FixOne ELSE nodeWeight
        wTIV == IF phase = "LATE" THEN tivWeight ELSE FixOne
        W == FixMul(FixMul(wBase, wNode), wTIV)
        force == FixMul(FixMul(currentCc, W), medianRTT - predictedRTT)
        deltaX == VectorDelta(local, peerCoord, force, predictedRTT)
        heightDelta == HeightDelta(force, local.Height - peerCoord.Height)
        move == IF phase = "LATE" THEN ApplyFreeze(deltaX, DefaultFc) ELSE deltaX
        lift == IF phase = "LATE" /\ Abs(heightDelta) > DefaultFc
                THEN (IF heightDelta < 0 THEN -DefaultFc ELSE DefaultFc)
                ELSE heightDelta
    IN  [Vector |-> [i \in DOMAIN local.Vector |-> local.Vector[i] + move[i]],
         Height |-> HeightFloor(local.Height + lift),
         Error |-> ErrorFloor(FixMul(FixMul(VivaldiCe, W), relativeError)
                              + FixMul(FixOne - FixMul(VivaldiCe, W), local.Error))]

MaxObservations == 2

\* peer coordinates: at the origin with the least error and no height, or away
\* from it with a large error and a height
PeerCoords ==
    {[Vector |-> <<0, 0, 0>>, Height |-> 0, Error |-> VivaldiMinError],
     [Vector |-> <<0, 0, 0>>, Height |-> 900, Error |-> FixOne],
     [Vector |-> <<3000, 4000, 0>>, Height |-> 0, Error |-> FixOne],
     [Vector |-> <<3000, 4000, 0>>, Height |-> 900, Error |-> VivaldiMinError]}

\* observed round-trip times: none, 1 ms, 60 ms
RttSamples == {0, 100, 6000}

\* (median of the tracked RTTs, wNode, wTIV) handed to the update
TrackedWeights == {<<0, 0, 100>>, <<2000, 50, 100>>, <<2000, 0, 10>>}

VivaldiInit ==
    /\ MercatorOverlay(1, [i \in 0..0 |-> <<0>>], [i \in 0..0 |-> [Lat |-> 0, Lon |-> 0]],
                       <<1, 9999, 3>>)
    /\ Graph = NewGraph(1)
    /\ malFlags = [i \in 0..0 |-> FALSE]
    /\ leaveFlags = [i \in 0..0 |-> FALSE]
    /\ root = 0
    /\ reptTime = 1
    /\ seed = SimulationSeed
    /\ rng = RandSeed(1)
    /\ NoSimulation(0..0)
    /\ simReptTime = 0
    /\ attack = [MaliciousRatio |-> 0, NodeLeaveRatio |-> 0]
    /\ geoArg = <<>>
    /\ geoRet = <<>>
    /\ \E height \in {300, 600}, err \in {VivaldiMinError, 10, FixOne} :
            LocalCoord = [Vector |-> <<1000, 0, 0>>, Height |-> height, Error |-> err]
    /\ \E phase \in {"EARLY", "LATE"} :
            vivaldiState = [Phase |-> phase,
                            CurrentCc |-> IF phase = "LATE" THEN VivaldiCc \div 2 ELSE VivaldiCc,
                            observed |-> 0, last |-> "none"]

\* Observe(vm, peerID, peerCoord, rtt)
CallObserve ==
    /\ vivaldiState.observed < MaxObservations
    /\ \E peerCoord \in PeerCoords, rtt \in RttSamples :
            LocalCoord' = Observe(LocalCoord, peerCoord, rtt)
    /\ vivaldiState' = [vivaldiState EXCEPT !.observed = @ + 1, !.last = "Observe"]
    /\ UNCHANGED <<geoArg, geoRet, simulatorVars>>

\* ObservePlusPlus(state, peerID, peerCoord, rtt, round, config, coords)
CallObservePlusPlus ==
    /\ vivaldiState.observed < MaxObservations
    /\ \E peerCoord \in PeerCoords, rtt \in RttSamples, given \in TrackedWeights :
            LocalCoord' = ObservePlusPlus(LocalCoord, vivaldiState.Phase,
                                          vivaldiState.CurrentCc, peerCoord, rtt,
                                          given[1], given[2], given[3])
    /\ vivaldiState' = [vivaldiState EXCEPT !.observed = @ + 1, !.last = "ObservePlusPlus"]
    /\ UNCHANGED <<geoArg, geoRet, simulatorVars>>

VivaldiNext == CallObserve \/ CallObservePlusPlus

VivaldiSpec == VivaldiInit /\ [][VivaldiNext]_vars

\* C25: after every coordinate update, by Observe or by ObservePlusPlus, the
\* coordinate has error >= ERR_MIN and height >= 0
C25_ErrorAndHeightFloors ==
    (vivaldiState # <<>> /\ vivaldiState.observed > 0) =>
        LocalCoord.Error >= VivaldiMinError /\ LocalCoord.Height >= 0

\* a second update, by ObservePlusPlus in the late phase, has brought the height
\* down to zero (every run starts with a positive height), the error lying
\* above its floor
C25_Witness ==
    /\ vivaldiState # <<>> /\ vivaldiState.observed = 2
    /\ vivaldiState.last = "ObservePlusPlus" /\ vivaldiState.Phase = "LATE"
    /\ LocalCoord.Error > VivaldiMinError
    /\ LocalCoord.Height = 0
    /\ LocalCoord.Vector # <<1000, 0, 0>>

(***************************************************************************)
(* The k-buckets after construction                                        *)
(***************************************************************************)
\* C31: bucket 0 of a node holds only peers of the node's own Geohash, and every
\* peer of bucket b > 0 has its first differing bit at position TotalBits - b
C31_BucketsMatchFirstDiffBit ==
    \A u \in 0..(n - 1) :
        /\ \A p \in 1..Len(KBuckets[u][0]) :
              NodeGeohash[KBuckets[u][0][p]] = NodeGeohash[u]
        /\ \A b \in 1..TotalBits : \A p \in 1..Len(KBuckets[u][b]) :
              FirstDiffBitPos(ToBinary(NodeGeohash[u]),
                              ToBinary(NodeGeohash[KBuckets[u][b][p]])) = TotalBits - b

\* C31: bucket 0 of a node holds exactly the other peers of the node's own
\* Geohash; every peer of a bucket b > 0 has another Geohash and stands in the
\* bucket of its first differing bit, TotalBits - first_diff_bit_pos, as well
C31_BucketsHoldPrimaryOrSecondWrite ==
    \A u \in 0..(n - 1) :
        /\ Range(KBuckets[u][0]) = {v \in 0..(n - 1) \ {u} : NodeGeohash[v] = NodeGeohash[u]}
        /\ \A b \in 1..TotalBits : \A p \in 1..Len(KBuckets[u][b]) :
              LET v == KBuckets[u][b][p]
                  diffPos == FirstDiffBitPos(ToBinary(NodeGeohash[u]), ToBinary(NodeGeohash[v]))
              IN  /\ diffPos # -1
                  /\ v \in Range(KBuckets[u][TotalBits - diffPos])

\* a node with a same-hash peer in bucket 0 and, in an outer bucket, a peer
\* whose first differing bit belongs to another bucket
C31_Witness ==
    \E u \in 0..(n - 1) :
        /\ KBuckets[u][0] # <<>>
        /\ \E b \in 1..TotalBits : \E v \in Range(KBuckets[u][b]) :
              FirstDiffBitPos(ToBinary(NodeGeohash[u]), ToBinary(NodeGeohash[v])) # TotalBits - b

\* the buckets of node i as the two writes of FillOtherKBuckets leave them,
\* before the dedup pass
UndedupedBuckets(i) ==
    FillBucketsOfNode(i, 1, FillK0Bucket(InitializeKBuckets(n, TotalBits), GeohashGroups)[i],
                      [p \in 1..n |-> ToBinary(NodeGeohash[p - 1])], Coords, BucketSize,
                      TotalBits)

\* position of the first occurrence of v in xs
FirstIndex(xs, v) == CHOOSE p \in 1..Len(xs) : xs[p] = v /\ \A q \in 1..(p - 1) : xs[q] # v

\* C32: after FillOtherKBuckets no bucket of a node holds a peer twice, no peer
\* written into a bucket is lost, and the entries stand in the order of their
\* first occurrences
C32_BucketsDedupedInFirstOrder ==
    \A i \in 0..(n - 1) :
        LET raw == UndedupedBuckets(i)
        IN  \A b \in 0..TotalBits :
              LET kept == KBuckets[i][b]
              IN  /\ \A p, q \in 1..Len(kept) : p # q => kept[p] # kept[q]
                  /\ Range(kept) = Range(raw[b])
                  /\ \A p, q \in 1..Len(kept) :
                        p < q => FirstIndex(raw[b], kept[p]) < FirstIndex(raw[b], kept[q])

\* a bucket written twice whose last written entry is the peer that stands first
C32_Witness ==
    \E i \in 0..(n - 1) : \E b \in 1..TotalBits :
        LET raw == UndedupedBuckets(i)[b]
            kept == KBuckets[i][b]
        IN  /\ Len(kept) >= 2
            /\ Len(raw) > Len(kept)
            /\ raw[Len(raw)] = kept[1]

(***************************************************************************)
(* The bucket index of forwarding against the one of bucket construction   *)
(***************************************************************************)
\* C33: for two hashes of one length, GetGeoBucketIndex is 0 when they are equal
\* and TotalBits minus the first differing bit position otherwise, at every
\* precision
C33_BucketIndexMatchesFirstDiff ==
    (geoArg # <<>> /\ geoArg[1] = "GetGeoBucketIndex" /\ geoRet # <<>>) =>
        geoRet[1] = IF geoArg[2] = geoArg[3] THEN 0
                    ELSE GeoBitsPerChar * Len(geoArg[2])
                           - FirstDiffBitPos(ToBinary(geoArg[2]), ToBinary(geoArg[3]))

(***************************************************************************)
(* The Geohash prefix tree                                                 *)
(***************************************************************************)
\* the nodes (0-based ids) whose hash starts with the prefix
NodesExtending(nodeGeohash, prefix) ==
    {i \in 0..(Len(nodeGeohash) - 1) :
        /\ Len(nodeGeohash[i + 1]) >= Len(prefix)
        /\ SubSeq(nodeGeohash[i + 1], 1, Len(prefix)) = prefix}

\* C34: every node of the prefix tree, the root with the empty prefix included,
\* lists exactly the peers whose hash extends its prefix, and
\* FindNodesWithPrefix(p) returns exactly the peers whose hash starts with p
C34_PrefixTreeListsExtensions ==
    (geoArg # <<>> /\ geoArg[1] = "FindNodesWithPrefix") =>
        /\ Len(geoRet) >= 1 =>
              \A p \in DOMAIN geoRet[1] :
                  Range(geoRet[1][p]) = NodesExtending(geoArg[2], p)
        /\ Len(geoRet) = 2 => Range(geoRet[2]) = NodesExtending(geoArg[2], geoArg[3])

(***************************************************************************)
(* The step of the messages handed to Respond                              *)
(***************************************************************************)
\* C39: every message the event loop hands to Respond has a step of at most
\* MaxDepth, so Visited[dst][Step] stays inside the MaxDepth+1 slots of the node
C39_RespondStepWithinMaxDepth ==
    lastRespond # NoRespond =>
        /\ lastRespond.msg.Step \in 0..MaxDepth
        /\ ~lastRespond.panic

(***************************************************************************)
(* The repetitions of one SingleRootSimulation call                        *)
(***************************************************************************)
\* C40: every repetition after the first starts with Visited and KaryMsgInfo
\* freshly reset, and ends with the message delivered to the same set of nodes
\* as the first repetition
C40_RepetitionsStartFresh ==
    [][ /\ (pc = "loop" /\ rept' = rept + 1 /\ pc' = "loop") =>
              /\ Visited' = NoVisited(Nodes)
              /\ KaryMsgInfo' = NoKaryMsgInfo(Nodes)
        /\ (pc = "loop" /\ rept' = rept + 1 /\ rept >= 1) =>
              {i \in Nodes : recvFlag[i]} = firstDelivered
      ]_vars

(***************************************************************************)
(* Vivaldi++ learning rounds: the phase controller, the neighbour history  *)
(* and the annealing of one node (vivaldi_plusplus.go)                     *)
(***************************************************************************)
\* FixedDelay in hundredths of a millisecond
FixedDelayFix == FixedDelay * 10

\* 1.0 in hundredths
VivaldiInitError == 100

\* NewVivaldiPlusPlusConfig() with the phase parameters of a short run: the
\* switch is allowed from round rMin on, after S = 2 rounds of low error or with
\* BMin = 1 stable neighbour, annealing every 2 rounds, a coordinate window of 2
RoundConfig(rMin, eSwitch) ==
    [Cc |-> VivaldiCc, Ce |-> VivaldiCe, CoordWindow |-> 2,
     RMin |-> rMin, ESwitch |-> eSwitch, S |-> 2, BMin |-> 1,
     P |-> 3, E0 |-> 15, Tau |-> 10, EpsMin |-> 10, Gamma |-> 40, Alpha |-> 200,
     AnnealRate |-> 30, AnnealPeriod |-> 2, Fc |-> DefaultFc]

\* NewVivaldiPlusPlusState and NewNeighborHistory: the phase state of the node
\* and what its history holds about its one neighbour (nothing yet)
NewVivaldiPlusPlusState(config) ==
    [Phase |-> "EARLY", PhaseStableCounter |-> 0, CurrentCc |-> config.Cc,
     CurrentCe |-> config.Ce, SwitchRound |-> -1,
     coordHist |-> <<>>, deltaHist |-> <<>>, lastError |-> 0, stable |-> FALSE,
     wNode |-> 0, stableSet |-> {}]

\* the median of a non-empty list, as GetMedianRTT and ComputeStability take it
Median(xs) ==
    LET sorted == SortInts(xs)
        half == Len(sorted) \div 2
    IN  IF Len(sorted) % 2 = 0 THEN GoDiv(sorted[half] + sorted[half + 1], 2)
        ELSE sorted[half + 1]

\* NeighborHistory.Update(peerID, coord): the first update sets wNode to 1; the
\* movement against the previous coordinate and the coordinate itself are
\* appended, both lists being cut to the window
NeighborHistoryUpdate(state, coord, config) ==
    LET known == state.coordHist # <<>>
        delta == DistanceVivaldi(state.coordHist[Len(state.coordHist)], coord)
        deltas == IF known THEN Append(state.deltaHist, delta) ELSE state.deltaHist
        coordsNow == Append(state.coordHist, coord)
    IN  [state EXCEPT
            !.wNode = IF known THEN @ ELSE FixOne,
            !.deltaHist = IF Len(deltas) > config.CoordWindow THEN Tail(deltas) ELSE deltas,
            !.coordHist = IF Len(coordsNow) > config.CoordWindow THEN Tail(coordsNow)
                          ELSE coordsNow,
            !.lastError = coord.Error]

\* NeighborHistory.ComputeStability(peerID, config)
ComputeStability(state, config) ==
    LET osc == IF state.deltaHist # <<>> THEN Median(state.deltaHist) ELSE 0
        lastCoord == state.coordHist[Len(state.coordHist)]
        norm == IF state.coordHist = <<>> THEN FixOne
                ELSE SqrtBetween(SumSeq([i \in DOMAIN lastCoord.Vector |->
                                           lastCoord.Vector[i] * lastCoord.Vector[i]]),
                                 0, 40000) + lastCoord.Height
        coordNorm == IF norm < FixOne THEN FixOne ELSE norm
        isStable == FixDiv(osc, coordNorm) < config.P /\ state.lastError < config.E0
    IN  [state EXCEPT !.stable = isStable,
                      !.wNode = IF isStable THEN FixOne ELSE config.Gamma]

\* ComputeLambda: t_ij / (t_ib + t_bj)
ComputeLambda(tij, tib, tbj) ==
    IF tib + tbj <= 0 THEN FixOne ELSE FixDiv(tij, tib + tbj)

\* ComputeWTIV: 1 up to 1 + tau, then max(epsMin, 1 / (1 + alpha*(lambda - 1 - tau)))
ComputeWTIV(lambda, tau, epsMin, alpha) ==
    IF lambda <= FixOne + tau THEN FixOne
    ELSE LET wTIV == FixDiv(FixOne, FixOne + FixMul(alpha, lambda - FixOne - tau))
         IN  IF wTIV < epsMin THEN epsMin ELSE wTIV

\* the TIV weight ObservePlusPlus computes in the late phase.  The reference
\* point is the one neighbour when it is in the stable set: t_ib is then the
\* median RTT of that neighbour and t_bj its distance to itself plus FixedDelay
TIVWeight(state, medianRTT, config) ==
    IF state.Phase = "LATE" /\ state.stableSet # {}
    THEN ComputeWTIV(ComputeLambda(medianRTT, medianRTT, FixedDelayFix),
                     config.Tau, config.EpsMin, config.Alpha)
    ELSE FixOne

\* StableSetManager.GetStableSetSize
GetStableSetSize(state) == Cardinality(state.stableSet)

\* ShouldSwitchToLate(state, round, config): the state it leaves
ShouldSwitchToLate(state, error, round, config) ==
    IF state.Phase = "LATE" THEN state
    ELSE IF round < config.RMin THEN state
    ELSE LET errorOK == error < config.ESwitch
             stableSetOK == GetStableSetSize(state) >= config.BMin
             counter == IF errorOK THEN state.PhaseStableCounter + 1 ELSE 0
         IN  IF counter >= config.S \/ stableSetOK
             THEN [state EXCEPT !.PhaseStableCounter = counter,
                                !.Phase = "LATE",
                                !.SwitchRound = round,
                                !.CurrentCc = FixMul(config.Cc, 50),
                                !.CurrentCe = FixMul(config.Ce, 90)]
             ELSE [state EXCEPT !.PhaseStableCounter = counter]

\* an annealing that leaves the round of the switch out
AnnealsInRoundAfterSwitch(state, round, config) ==
    /\ state.SwitchRound >= 0
    /\ round > state.SwitchRound
    /\ (round - state.SwitchRound) % config.AnnealPeriod = 0

\* state.SwitchRound >= 0 && (round-state.SwitchRound)%config.AnnealPeriod == 0
AnnealsInRound(state, round, config) ==
    /\ state.SwitchRound >= 0
    /\ (round - state.SwitchRound) % config.AnnealPeriod = 0

\* ApplyAnnealing(state, round, config)
ApplyAnnealing(state, round, config) ==
    IF state.Phase # "LATE" THEN state
    ELSE IF AnnealsInRound(state, round, config)
    THEN LET cc == FixMul(state.CurrentCc, config.AnnealRate)
         IN  [state EXCEPT !.CurrentCc = IF cc < 1 THEN 1 ELSE cc]
    ELSE state

\* the part of ObservePlusPlus before the update: the neighbour history takes
\* the peer's coordinate and, in the late phase or from round RMin-5 on,
\* classifies the peer
TrackNeighbor(state, peerCoord, round, config) ==
    LET updated == NeighborHistoryUpdate(state, peerCoord, config)
    IN  IF state.Phase = "LATE" \/ round >= config.RMin - 5
        THEN ComputeStability(updated, config)
        ELSE updated

\* GenerateVirtualCoordinatePlusPlus for a node with one neighbour: every round
\* tests the switch, observes the neighbour once and applies the annealing
MaxRounds == 6

\* the configurations: the switch allowed from round 2 on with the default
\* error threshold 0.15 or with 0.60, and a switch not allowed before round 7
RoundConfigs == {RoundConfig(2, 15), RoundConfig(2, 60), RoundConfig(7, 15)}

\* the random start coordinate of the node: at 250 ms or at 10 ms from the
\* origin, the error being VivaldiInitError
StartCoords ==
    {[Vector |-> <<25000, 0, 0>>, Height |-> 0, Error |-> VivaldiInitError],
     [Vector |-> <<1000, 0, 0>>, Height |-> 300, Error |-> VivaldiInitError]}

RoundInit ==
    /\ MercatorOverlay(1, [i \in 0..0 |-> <<0>>], [i \in 0..0 |-> [Lat |-> 0, Lon |-> 0]],
                       <<1, 9999, 3>>)
    /\ Graph = NewGraph(1)
    /\ malFlags = [i \in 0..0 |-> FALSE]
    /\ leaveFlags = [i \in 0..0 |-> FALSE]
    /\ root = 0
    /\ reptTime = 1
    /\ seed = SimulationSeed
    /\ rng = RandSeed(1)
    /\ NoSimulation(0..0)
    /\ simReptTime = 0
    /\ attack = [MaliciousRatio |-> 0, NodeLeaveRatio |-> 0]
    /\ geoArg = <<>>
    /\ geoRet = <<>>
    /\ LocalCoord \in StartCoords
    /\ \E config \in RoundConfigs :
            vivaldiState = [state |-> NewVivaldiPlusPlusState(config), config |-> config,
                            round |-> 0, at |-> "switch", errBelow |-> <<>>,
                            rtt |-> FixedDelayFix]

\* lines 683-692: ShouldSwitchToLate, then RefreshStableSet in the late phase
\* when round%3 == 0
SwitchStep ==
    /\ vivaldiState # <<>> /\ "at" \in DOMAIN vivaldiState /\ vivaldiState.at = "switch"
    /\ LET config == vivaldiState.config
           round == vivaldiState.round
           tested == ShouldSwitchToLate(vivaldiState.state, LocalCoord.Error, round, config)
           refreshed == IF tested.Phase = "LATE" /\ round % 3 = 0
                        THEN [tested EXCEPT !.stableSet = IF tested.stable THEN {1} ELSE {}]
                        ELSE tested
       IN  vivaldiState' = [vivaldiState EXCEPT
                               !.state = refreshed,
                               !.at = "observe",
                               !.errBelow = Append(@, LocalCoord.Error < config.ESwitch)]
    /\ UNCHANGED <<LocalCoord, geoArg, geoRet, simulatorVars>>

\* lines 694-786: the one neighbour is selected and observed; its RTT is the
\* same in every round, so the median of the RTT window is that RTT
ObserveStep ==
    /\ vivaldiState # <<>> /\ "at" \in DOMAIN vivaldiState /\ vivaldiState.at = "observe"
    /\ \E peerCoord \in PeerCoords :
         LET config == vivaldiState.config
             tracked == TrackNeighbor(vivaldiState.state, peerCoord, vivaldiState.round, config)
         IN  /\ LocalCoord' = ObservePlusPlus(LocalCoord, tracked.Phase, tracked.CurrentCc,
                                              peerCoord, vivaldiState.rtt, vivaldiState.rtt,
                                              tracked.wNode,
                                              TIVWeight(tracked, vivaldiState.rtt, config))
             /\ vivaldiState' = [vivaldiState EXCEPT !.state = tracked, !.at = "anneal"]
    /\ UNCHANGED <<geoArg, geoRet, simulatorVars>>

\* lines 788-795: ApplyAnnealing closes the round of the node
AnnealStep ==
    /\ vivaldiState # <<>> /\ "at" \in DOMAIN vivaldiState /\ vivaldiState.at = "anneal"
    /\ vivaldiState' = [vivaldiState EXCEPT
                           !.state = ApplyAnnealing(@, vivaldiState.round, vivaldiState.config),
                           !.round = @ + 1,
                           !.at = IF vivaldiState.round + 1 < MaxRounds THEN "switch"
                                  ELSE "done"]
    /\ UNCHANGED <<LocalCoord, geoArg, geoRet, simulatorVars>>

RoundNext == SwitchStep \/ ObserveStep \/ AnnealStep

RoundSpec == RoundInit /\ [][RoundNext]_vars

\* the node is about to test the switch in the early phase
TestsSwitchInEarly ==
    /\ vivaldiState # <<>> /\ "at" \in DOMAIN vivaldiState
    /\ vivaldiState.at = "switch"
    /\ vivaldiState.state.Phase = "EARLY"

\* the error of the node was below e_switch at the switch test of each of the
\* last S rounds, the current one included
LowErrorRun(errBelow, S) ==
    /\ Len(errBelow) >= S
    /\ \A k \in (Len(errBelow) - S + 1)..Len(errBelow) : errBelow[k]

\* C35: a node in the early phase switches to the late phase in round r exactly
\* when r >= R_min and either its error was below e_switch in each of the S most
\* recent rounds or the number of its stable neighbours is at least B_min
C35_SwitchIffConditions ==
    [][TestsSwitchInEarly =>
          LET config == vivaldiState.config
              stableNeighbours == IF vivaldiState.state.stable THEN 1 ELSE 0
          IN  (vivaldiState'.state.Phase = "LATE") <=>
                 /\ vivaldiState.round >= config.RMin
                 /\ \/ LowErrorRun(vivaldiState'.errBelow, config.S)
                    \/ stableNeighbours >= config.BMin
      ]_vars

\* the node is about to observe its neighbour in the given phase
ObservesIn(phase) ==
    /\ vivaldiState # <<>> /\ "at" \in DOMAIN vivaldiState
    /\ vivaldiState.at = "observe"
    /\ vivaldiState.state.Phase = phase

\* the error estimate an observation of the peer leaves when it weighs the
\* relative error with ce: ce*W*relativeError + (1 - ce*W)*localError, floored
ErrorUpdatedWith(ce, local, peerCoord, medianRTT, wNode, wTIV) ==
    LET predictedRTT == DistanceVivaldi(local, peerCoord)
        relativeError == FixDiv(Abs(predictedRTT - medianRTT), medianRTT)
        W == FixMul(FixMul(BaseWeight(local.Error, peerCoord.Error), wNode), wTIV)
    IN  ErrorFloor(FixMul(FixMul(ce, W), relativeError)
                   + FixMul(FixOne - FixMul(ce, W), local.Error))

\* C36: an observation in the late phase moves the node with half the
\* configured Cc as long as no annealing has happened, and updates the error
\* with 0.9 times the configured Ce
C36_LateUsesHalfCcAndReducedCe ==
    [][ObservesIn("LATE") =>
          LET config == vivaldiState.config
              after == vivaldiState'.state
              peerCoord == after.coordHist[Len(after.coordHist)]
          IN  /\ vivaldiState.round = vivaldiState.state.SwitchRound =>
                    vivaldiState.state.CurrentCc = FixMul(config.Cc, 50)
              /\ LocalCoord'.Error =
                    ErrorUpdatedWith(FixMul(config.Ce, 90), LocalCoord, peerCoord,
                                     vivaldiState.rtt, after.wNode,
                                     TIVWeight(after, vivaldiState.rtt, config))
      ]_vars

\* the node is in the late phase, at the given point of its round
LateAt(at) ==
    /\ vivaldiState # <<>> /\ "at" \in DOMAIN vivaldiState
    /\ vivaldiState.at = at
    /\ vivaldiState.state.Phase = "LATE"

\* max(0.01, Cc * r_anneal)
AnnealedCc(cc, config) ==
    IF FixMul(cc, config.AnnealRate) < 1 THEN 1 ELSE FixMul(cc, config.AnnealRate)

\* C37 (as stated): after the switch in round r_s, Cc is replaced by
\* max(0.01, Cc * r_anneal) exactly in the rounds r_s + k * T_anneal with
\* k = 1, 2, ... and stays as it is in every other round; it never grows and
\* never falls below 0.01
C37_AnnealsEveryPeriodAfterSwitch ==
    [][ /\ LateAt("anneal") =>
              LET config == vivaldiState.config
                  since == vivaldiState.round - vivaldiState.state.SwitchRound
                  cc == vivaldiState.state.CurrentCc
              IN  /\ vivaldiState'.state.CurrentCc =
                        IF since >= 1 /\ since % config.AnnealPeriod = 0
                        THEN AnnealedCc(cc, config) ELSE cc
                  /\ vivaldiState'.state.CurrentCc <= cc
                  /\ vivaldiState'.state.CurrentCc >= 1
        /\ (LateAt("switch") \/ LateAt("observe")) =>
              vivaldiState'.state.CurrentCc = vivaldiState.state.CurrentCc
      ]_vars

\* C37: after the switch in round r_s, Cc is replaced by
\* max(0.01, Cc * r_anneal) at the end of exactly the rounds r_s + k * T_anneal
\* with k = 0, 1, 2, ..., the round of the switch included, and stays as it is
\* in every other round; it never grows and never falls below 0.01
C37_AnnealsFromSwitchRoundOn ==
    [][ /\ LateAt("anneal") =>
              LET config == vivaldiState.config
                  since == vivaldiState.round - vivaldiState.state.SwitchRound
                  cc == vivaldiState.state.CurrentCc
              IN  /\ vivaldiState'.state.CurrentCc =
                        IF since >= 0 /\ since % config.AnnealPeriod = 0
                        THEN AnnealedCc(cc, config) ELSE cc
                  /\ vivaldiState'.state.CurrentCc <= cc
                  /\ vivaldiState'.state.CurrentCc >= 1
        /\ (LateAt("switch") \/ LateAt("observe")) =>
              vivaldiState'.state.CurrentCc = vivaldiState.state.CurrentCc
      ]_vars

\* three rounds after its switch the node has annealed twice, in the round of
\* the switch and two rounds later, and Cc has reached its floor
C37_Witness ==
    /\ vivaldiState # <<>> /\ "at" \in DOMAIN vivaldiState
    /\ vivaldiState.state.Phase = "LATE"
    /\ vivaldiState.round = vivaldiState.state.SwitchRound + 3
    /\ vivaldiState.state.CurrentCc = 1


\* C38: an observation in the early phase weighs the peer with node weight 1,
\* whether the peer is classified as stable or as unstable
C38_EarlyNodeWeightIsOne ==
    [][ObservesIn("EARLY") =>
          LET after == vivaldiState'.state
              peerCoord == after.coordHist[Len(after.coordHist)]
          IN  LocalCoord' = ObservePlusPlus(LocalCoord, "EARLY", after.CurrentCc, peerCoord,
                                            vivaldiState.rtt, vivaldiState.rtt,
                                            FixOne, FixOne)
      ]_vars

====
